---- MODULE Spec2Model ----
(***************************************************************************)
(* BTC loan monitor: the alert engine (price and LTV threshold crossing)   *)
(* over the loan store, and the price aggregator (freshness filter,        *)
(* median, circuit breaker, TWAP, confidence).                             *)
(*                                                                         *)
(* Two specifications share the module:                                    *)
(*   Spec     the alert engine and the store operations it depends on,     *)
(*            under the event loop's run-to-completion scheduling;         *)
(*   SpecAgg  the aggregator driven by ingestTick, computeUpdate and the   *)
(*            clock.                                                       *)
(***************************************************************************)
EXTENDS Integers, Sequences, FiniteSets, TLC

(***************************************************************************)
(* Bounds of the alert-engine model.                                       *)
(***************************************************************************)
\* prices published on price:update are 1..MaxPrice (sources drop price <= 0)
MaxPrice == 3
\* alerts ever created (alert ids are fresh random values: never reused)
MaxAlerts == 2
\* loans ever created (tokens are fresh random values: never reused)
MaxLoans == 1
\* loans ever created while the store is exercised alone
MaxStoreLoans == 2
\* loans ever created through the conversation
MaxConvLoans == 2
\* a run with restarts is followed until an alert has been notified
\* MaxNotified times
MaxNotified == 2
\* the chats that hold a /newloan conversation
ConvChats == {1}
\* the texts a chat sends
ConvInputs == {"cancel", "CANCEL", "yes", "YES", "skip", "abc", "0", "75", "$75",
               "2025-12-31"}
\* the values /edit is called with
EditValues == {"abc", "0", "75", "100", "2025-12-31"}
\* the fields /edit is called with: those it knows and one it does not
EditFields == {"amount", "collateral", "margincall", "liquidation", "interest",
               "enddate", "lender", "colour"}
\* ConversationStep
ConversationSteps == {"IDLE", "AWAITING_AMOUNT", "AWAITING_COLLATERAL",
                      "AWAITING_MARGIN_CALL", "AWAITING_LIQUIDATION",
                      "AWAITING_INTEREST", "AWAITING_END_DATE", "AWAITING_LENDER",
                      "CONFIRM"}
\* the request methods exercised
Methods == {"GET", "POST", "OPTIONS"}
\* the tokens requests carry: those of the loans and one of no loan
RequestTokens == 1..(MaxStoreLoans + 1)
\* the request paths exercised: /dash/<48 lowercase hex digits> (token: whose
\* token they are), /dash/<anything else>, /health and an unknown route
Paths == {[prefix |-> "/dash/", token |-> token, hex48 |-> TRUE] : token \in RequestTokens}
            \cup {[prefix |-> "/dash/", token |-> 0, hex48 |-> FALSE],
                  [prefix |-> "/health", token |-> 0, hex48 |-> FALSE],
                  [prefix |-> "/foo/bar", token |-> 0, hex48 |-> FALSE]}
\* the alert ids requests carry: those of the alerts and one of no alert
RequestAlertIds == 1..(MaxAlerts + 1)
\* the bounds the steps validate against
maxLoanAmount == 100000000
maxCollateral == 100000
maxLtvPercent == 100
maxInterestPercent == 200
\* the chats that call the store
StoreChats == {1, 2}
\* the chats that register loans next to the alert engine
Chats == {1}
\* price:update handlers in flight at once
MaxHandlers == 2

Prices == 1..MaxPrice
\* thresholds a caller may give a price alert (USD, > 0)
PriceThresholds == {2}
\* thresholds a caller may give an LTV alert, in percent (ltv_threshold * 100)
LtvThresholds == {100}
Directions == {"ABOVE", "BELOW"}
\* createLoan's partial: loan_amount_usd || 0 and btc_collateral || 0
LoanAmounts == {0, 2}
Collaterals == {0, 1}

(***************************************************************************)
(* Bounds and constants of the aggregator model.                           *)
(***************************************************************************)
\* the clock advances MaxClock times
MaxClock == 2
\* PriceAggregator.maxSamples (2000 in the program), scaled down so that the
\* ring overflows within the clock's horizon
maxSamples == 3
\* const staleThreshold = 30_000
staleThreshold == 30000
\* the clock advances in steps of ClockStep ms
ClockStep == staleThreshold
\* the timestamps a tick may carry
TickTimestamps == {k * ClockStep : k \in 0..MaxClock}
\* the hold of a tripped breaker: now - circuitBreakerTriggeredAt < 60_000
breakerHoldMs == 60000
\* config.circuit_breaker_pct
circuit_breaker_pct == 10
\* computeTwap(5 * 60 * 1000)
twapWindowMs == 5 * 60 * 1000
\* oracleConfig.twap_window_seconds
twap_window_seconds == 300
\* the widths updateConfig may set, in seconds
TwapWindowSeconds == {150, 300}
\* the long clock: it advances TwapClockStep ms at a time, MaxTwapClock times
TwapClockStep == twapWindowMs \div 2
MaxTwapClock == 3
\* the feeds connected while the TWAP window is exercised
TwapSources == {"kraken"}
\* the prices of scenarios S5 (three sources about 60000) and S6 (72000)
ScenarioPrices == {60000, 60200, 60500, 72000}

\* WebSocket objects a source creates
MaxSockets == 3
\* price:source_tick events a source emits
MaxTicks == 2

\* timers the oracle creates with setInterval
MaxIntervals == 2
\* EventBus.maxHistory (1000 in the program), scaled down so that the history
\* overflows
maxHistory == 3
\* system events emitted on the bus
MaxEmitted == 5
\* oracleConfig.min_sources
min_sources == 1
\* the values of min_sources an oracle may be constructed with
MinSourcesChoices == {1, 2}
\* the feeds that deliver ticks while the oracle is exercised
OracleSources == {"kraken", "coinbase"}
\* SystemEvent["type"], as far as the price and alert pipeline emits them
EventTypes == {"PRICE_UPDATE", "CIRCUIT_BREAKER", "SOURCE_DEGRADED", "ALERT_TRIGGERED"}
\* the limits getHistory is called with
HistoryLimits == {0, 1, 2}

\* setTimeout(() => this.connect(), 5000)
reconnectDelayMs == 5000
\* what parseFloat makes of a ticker's price field
ParsedPrices ==
    {[isNaN |-> TRUE, value |-> 0]} \cup {[isNaN |-> FALSE, value |-> v] : v \in {-1, 0, 1200}}
\* inbound messages: not JSON, JSON of another shape, a ticker
Messages ==
    {[shape |-> shape, price |-> [isNaN |-> TRUE, value |-> 0]] : shape \in {"malformed", "other"}}
        \cup {[shape |-> "ticker", price |-> price] : price \in ParsedPrices}

Sources == {"kraken", "coinbase", "bitstamp"}
\* prices a source may tick (> 0; sums of two are even, so that the mean of
\* the two middle prices is a whole number)
SourcePrices == {1200, 1440}

VARIABLES
    \* ---- LoanStore ----
    loans,          \* Map token -> loan (loan_amount_usd, btc_collateral)
    loanCount,      \* tokens handed out so far
    chatToToken,    \* LoanStore.chatToToken
    alertObj,       \* the alert objects ever created, by alert id (the heap:
                    \* a sweep keeps references to alerts deleted meanwhile)
    priceAlerts,    \* ids in the store's priceAlerts Map
    ltvAlerts,      \* ids in the store's ltvAlerts Map
    lastPrice,      \* store.lastPrice (price of the update; 0 = null)
    \* ---- AlertEngine ----
    previousPrice,  \* AlertEngine.previousPrice
    previousLtvs,   \* AlertEngine.previousLtvs: Map token -> LTV (a fraction)
    handlers,       \* the onPriceUpdate invocations in flight, by slot
    running,        \* the invocation executing now (0: the event loop is idle)
    \* ---- the engine's outputs ----
    notified,       \* calls of sendNotification, per alert id
    history,        \* ALERT_TRIGGERED system events, as alert ids in emission order
    \* ---- bookkeeping for the properties ----
    firstObs,       \* per alert id: "pending" while an alert created with the last
                    \* published price already past its threshold awaits its first
                    \* evaluation, then "fired" or "missed"; "n/a" for the others
    \* ---- PriceAggregator ----
    now,            \* Date.now(), ms
    sourcePrices,   \* Map source -> (price, timestamp), as its entries in
                    \* insertion order
    samples,        \* the sample ring
    circuitBreakerActive,
    lastKnownGoodPrice,
    circuitBreakerTriggeredAt,
    config,         \* PriceAggregator.config (twap_window_seconds)
    lastResult,     \* the call made in the last step and what it returned to its
                    \* caller (call = "none" once the caller has gone on)
    \* ---- a price source (KrakenSource, CoinbaseSource, BitstampSource) ----
    sockets,        \* the WebSocket objects the source has created, in order of
                    \* creation: readyState and whether its listeners are attached
    ws,             \* this.ws, as an index into sockets (0 = null)
    timers,         \* the timers setTimeout has created, in order of creation:
                    \* "pending", "cleared" or "fired", and the delay asked for
    reconnectTimer, \* this.reconnectTimer, as an index into timers (0 = null)
    stopped,        \* stop() has returned and start() has not been called since
    sourceTicks,    \* price:source_tick events the source has emitted
    lastPriceOfSource,  \* the source's this.lastPrice
    lastTimestamp,  \* the source's this.lastTimestamp
    lastMessage,    \* the message the last step delivered to a message listener
    \* ---- PriceOracleService ----
    oracleRunning,  \* this.running
    intervals,      \* the timers setInterval has created: "active" or "cleared"
    pollTimer,      \* this.pollTimer, as an index into intervals (0 = null)
    liveSockets,    \* per source, the sockets it holds with listeners attached
    oracleConfig,   \* this.config (min_sources)
    lastUpdate,     \* this.lastUpdate (isNull: null)
    published,      \* what the last step published on the bus, in order
    \* ---- EventBus ----
    eventHistory,   \* this.history
    emitted,        \* system events emitted so far
    historyResult,  \* what the last getHistory call was asked and returned
    \* ---- callers of the store ----
    storeReturn,    \* the store call of the last step and what it returned
    \* ---- the /newloan conversation ----
    conversations,  \* LoanStore.conversations: chat id -> step and partial loan
    chatInput,      \* the handler of the last step, its chat, its text and the step it found
    processResult,  \* what the processInput call of the last step returned
    \* ---- DashboardServer ----
    response,       \* the last request and the response written for it
    \* ---- persistence of the store ----
    disk,           \* the content of loans.json
    saveTimer       \* this.saveTimer is set

alertVars == <<loans, loanCount, chatToToken, alertObj, priceAlerts, ltvAlerts, lastPrice,
               previousPrice, previousLtvs, handlers, running, notified, history,
               firstObs>>
aggVars == <<now, sourcePrices, samples, circuitBreakerActive, lastKnownGoodPrice,
             circuitBreakerTriggeredAt, config, lastResult>>
sourceVars == <<sockets, ws, timers, reconnectTimer, stopped, sourceTicks,
                lastPriceOfSource, lastTimestamp, lastMessage>>
oracleVars == <<oracleRunning, intervals, pollTimer, liveSockets, oracleConfig,
                lastUpdate, published>>
busVars == <<eventHistory, emitted, historyResult>>
callVars == <<storeReturn>>
convVars == <<conversations, chatInput, processResult>>
httpVars == <<response>>
persistVars == <<disk, saveTimer>>
vars == <<alertVars, aggVars, sourceVars, oracleVars, busVars, callVars, convVars, httpVars, persistVars>>

(***************************************************************************)
(* Helpers                                                                 *)
(***************************************************************************)
\* a Map's entries restricted to the keys in S
Restrict(f, S) == [k \in S |-> f[k]]

\* the ids of S as an array in insertion order (ids are handed out increasing,
\* and a Map iterates in insertion order)
RECURSIVE SetToSeq(_)
SetToSeq(S) ==
    IF S = {} THEN <<>>
    ELSE LET m == CHOOSE x \in S : \A y \in S : x <= y
         IN  <<m>> \o SetToSeq(S \ {m})

\* preceding: the price of the update published before the one the invocation
\* handles (what the store held as last price when it began), 0 for none
IdleHandler == [phase |-> "idle", price |-> 0, todo |-> <<>>, awaiting |-> 0,
                preceding |-> 0]

(***************************************************************************)
(* LoanStore                                                               *)
(***************************************************************************)
getLoan(token) == token \in DOMAIN loans

getAllPriceAlerts == SetToSeq(priceAlerts)

getAllLtvAlerts == SetToSeq(ltvAlerts)

StoreUnchanged == UNCHANGED <<loans, loanCount, chatToToken, alertObj, priceAlerts, ltvAlerts>>

EngineUnchanged == UNCHANGED <<previousPrice, previousLtvs, handlers, running,
                               notified, history>>

\* the store's callers run as event-loop tasks of their own
Idle == running = 0

\* partial[field] || fallback, for a numeric field
orDefault(partial, field, fallback) ==
    IF field \in DOMAIN partial /\ partial[field] # 0 THEN partial[field] ELSE fallback

\* null, and a present value of an optional field
null == [isNull |-> TRUE]

some(value) == [isNull |-> FALSE, value |-> value]

\* partial[field] ?? null
orNull(partial, field) ==
    IF field \in DOMAIN partial THEN partial[field] ELSE null

\* the loan createLoan builds; LTV values are kept in hundredths
newLoan(chatId, partial) ==
    [loan_amount_usd |-> orDefault(partial, "loan_amount_usd", 0),
     btc_collateral  |-> orDefault(partial, "btc_collateral", 0),
     margin_call_ltv |-> orDefault(partial, "margin_call_ltv", 75),
     liquidation_ltv |-> orDefault(partial, "liquidation_ltv", 90),
     interest_rate   |-> orNull(partial, "interest_rate"),
     end_date        |-> orNull(partial, "end_date"),
     lender_name     |-> orNull(partial, "lender_name"),
     chat_id         |-> chatId]

\* createLoan(chatId, partial); the token is the next one not handed out yet
createLoan(chatId, partial) ==
    /\ Idle
    /\ loanCount' = loanCount + 1
    /\ loans' = (loanCount + 1 :> newLoan(chatId, partial)) @@ loans
    /\ chatToToken' = (chatId :> loanCount + 1) @@ chatToToken
    /\ UNCHANGED <<alertObj, priceAlerts, ltvAlerts, lastPrice, firstObs>>
    /\ EngineUnchanged

\* getLoanByChatId(chatId): the token of the loan, 0 for null
getLoanByChatId(chatId) ==
    IF chatId \in DOMAIN chatToToken /\ getLoan(chatToToken[chatId])
    THEN chatToToken[chatId] ELSE 0

\* what deleteLoan(token) returns
deleteLoanReturns(token) == getLoan(token)

\* a deleteLoan that leaves the alerts of the loan in the store
deleteLoanKeepingAlerts(token) ==
    /\ Idle
    /\ IF getLoan(token)
       THEN /\ chatToToken' = Restrict(chatToToken,
                                      DOMAIN chatToToken \ {loans[token].chat_id})
            /\ loans' = Restrict(loans, DOMAIN loans \ {token})
            /\ UNCHANGED <<priceAlerts, ltvAlerts>>
       ELSE UNCHANGED <<chatToToken, priceAlerts, ltvAlerts, loans>>
    /\ UNCHANGED <<loanCount, alertObj, lastPrice, firstObs>>
    /\ EngineUnchanged

\* deleteLoan(token)
deleteLoan(token) ==
    /\ Idle
    /\ IF getLoan(token)
       THEN /\ chatToToken' = Restrict(chatToToken,
                                      DOMAIN chatToToken \ {loans[token].chat_id})
            /\ priceAlerts' = {a \in priceAlerts : alertObj[a].token # token}
            /\ ltvAlerts' = {a \in ltvAlerts : alertObj[a].token # token}
            /\ loans' = Restrict(loans, DOMAIN loans \ {token})
       ELSE UNCHANGED <<chatToToken, priceAlerts, ltvAlerts, loans>>
    /\ UNCHANGED <<loanCount, alertObj, lastPrice, firstObs>>
    /\ EngineUnchanged

\* is price p strictly past the threshold, in the alert's direction
PricePast(p, threshold, direction) ==
    IF direction = "BELOW" THEN p < threshold ELSE p > threshold

NewAlert(kind, token, threshold, direction) ==
    [kind |-> kind, token |-> token, threshold |-> threshold,
     direction |-> direction, triggered |-> FALSE]

\* both callers (the /alert command, POST /api/loan/<token>/alerts) look the loan up first
createPriceAlert(token, threshold, direction) ==
    /\ Idle
    /\ getLoan(token)
    /\ Len(alertObj) < MaxAlerts
    /\ alertObj' = Append(alertObj, NewAlert("price", token, threshold, direction))
    /\ priceAlerts' = priceAlerts \cup {Len(alertObj) + 1}
    /\ notified' = Append(notified, 0)
    /\ firstObs' = Append(firstObs,
            IF lastPrice > 0 /\ PricePast(lastPrice, threshold, direction)
            THEN "pending" ELSE "n/a")
    /\ UNCHANGED <<loans, loanCount, chatToToken, ltvAlerts, lastPrice, previousPrice,
                   previousLtvs, handlers, running, history>>

createLtvAlert(token, thresholdPct, direction) ==
    /\ Idle
    /\ getLoan(token)
    /\ Len(alertObj) < MaxAlerts
    /\ alertObj' = Append(alertObj, NewAlert("ltv", token, thresholdPct, direction))
    /\ ltvAlerts' = ltvAlerts \cup {Len(alertObj) + 1}
    /\ notified' = Append(notified, 0)
    /\ firstObs' = Append(firstObs, "n/a")
    /\ UNCHANGED <<loans, loanCount, chatToToken, priceAlerts, lastPrice, previousPrice,
                   previousLtvs, handlers, running, history>>

deletePriceAlert(id) ==
    /\ Idle
    /\ id \in priceAlerts
    /\ priceAlerts' = priceAlerts \ {id}
    /\ UNCHANGED <<loans, loanCount, chatToToken, alertObj, ltvAlerts, lastPrice, firstObs>>
    /\ EngineUnchanged

deleteLtvAlert(id) ==
    /\ Idle
    /\ id \in ltvAlerts
    /\ ltvAlerts' = ltvAlerts \ {id}
    /\ UNCHANGED <<loans, loanCount, chatToToken, alertObj, priceAlerts, lastPrice, firstObs>>
    /\ EngineUnchanged

(***************************************************************************)
(* AlertEngine                                                             *)
(***************************************************************************)
\* LTVs are fractions n / d with d > 0, compared by cross-multiplication;
\* an alert's ltv_threshold is pct / 100
Ltv(loan, price) == [n |-> loan.loan_amount_usd, d |-> loan.btc_collateral * price]
ZeroLtv == [n |-> 0, d |-> 1]
LtvGt(l, pct) == l.n * 100 > pct * l.d
LtvLt(l, pct) == l.n * 100 < pct * l.d
LtvPositive(l) == l.n > 0
LtvIsZero(l) == l.n = 0

\* a sweep that does not skip triggered alerts
NeverSkipped(alert) == FALSE

\* if (alert.triggered) continue;
AlreadyTriggered(alert) == alert.triggered

\* the crossing test with the side of prev taken strictly
PriceCrossedStrict(prev, curr, threshold, direction) ==
    IF direction = "BELOW"
    THEN \/ (prev > 0 /\ prev > threshold /\ curr < threshold)
         \/ (prev = 0 /\ curr < threshold)
    ELSE \/ (prev > 0 /\ prev < threshold /\ curr > threshold)
         \/ (prev = 0 /\ curr > threshold)

\* the crossing test without the first-observation clauses
PriceCrossedNoFirst(prev, curr, threshold, direction) ==
    IF direction = "BELOW"
    THEN prev > 0 /\ prev >= threshold /\ curr < threshold
    ELSE prev > 0 /\ prev <= threshold /\ curr > threshold

\* the crossing test of checkPriceAlerts
PriceCrossed(prev, curr, threshold, direction) ==
    IF direction = "BELOW"
    THEN \/ (prev > 0 /\ prev >= threshold /\ curr < threshold)
         \/ (prev = 0 /\ curr < threshold)
    ELSE \/ (prev > 0 /\ prev <= threshold /\ curr > threshold)
         \/ (prev = 0 /\ curr > threshold)

\* the crossing test of checkLtvAlerts
LtvCrossed(prev, curr, thresholdPct, direction) ==
    IF direction = "ABOVE"
    THEN \/ (LtvPositive(prev) /\ ~LtvGt(prev, thresholdPct) /\ LtvGt(curr, thresholdPct))
         \/ (LtvIsZero(prev) /\ LtvGt(curr, thresholdPct))
    ELSE \/ (LtvPositive(prev) /\ ~LtvLt(prev, thresholdPct) /\ LtvLt(curr, thresholdPct))
         \/ (LtvIsZero(prev) /\ LtvLt(curr, thresholdPct))

\* a sweep that never finds a recorded LTV
PreviousLtvMissing(token) == ZeroLtv

\* this.previousLtvs.get(alert.token) ?? 0
PreviousLtvOf(token) ==
    IF token \in DOMAIN previousLtvs THEN previousLtvs[token] ELSE ZeroLtv

\* a trigger that calls notify and leaves the flag for later
MarkLater(alert) == alert

\* alert.triggered = true (triggered_at is a wall-clock stamp, not modelled)
MarkTriggered(alert) == [alert EXCEPT !.triggered = TRUE]

\* the slot a new invocation takes
FreeSlot == CHOOSE i \in 1..MaxHandlers :
                /\ handlers[i].phase = "idle"
                /\ \A j \in 1..MaxHandlers : handlers[j].phase = "idle" => i <= j

\* an onPriceUpdate that writes previousPrice on entry
onPriceUpdateWritingFirst(p) ==
    /\ Idle
    /\ \E i \in 1..MaxHandlers : handlers[i].phase = "idle"
    /\ lastPrice' = p
    /\ previousPrice' = p
    /\ handlers' = [handlers EXCEPT ![FreeSlot] =
                        [phase |-> "price", price |-> p,
                         todo |-> getAllPriceAlerts, awaiting |-> 0,
                         preceding |-> lastPrice]]
    /\ running' = FreeSlot
    /\ UNCHANGED <<previousLtvs, notified, history, firstObs>>
    /\ StoreUnchanged

\* eventBus.emit("price:update", update) reaching onPriceUpdate: setLastPrice,
\* then checkPriceAlerts takes its snapshot of the alerts. The poll timer (or
\* processPrice) fires whatever earlier invocations are still awaiting.
onPriceUpdate(p) ==
    /\ Idle
    /\ \E i \in 1..MaxHandlers : handlers[i].phase = "idle"
    /\ lastPrice' = p
    /\ handlers' = [handlers EXCEPT ![FreeSlot] =
                        [phase |-> "price", price |-> p,
                         todo |-> getAllPriceAlerts, awaiting |-> 0,
                         preceding |-> lastPrice]]
    /\ running' = FreeSlot
    /\ UNCHANGED <<previousPrice, previousLtvs, notified, history, firstObs>>
    /\ StoreUnchanged

\* one iteration of the for loop of checkPriceAlerts
checkPriceAlertsStep ==
    /\ running # 0
    /\ handlers[running].phase = "price"
    /\ handlers[running].todo # <<>>
    /\ LET h == handlers[running]
           id == Head(h.todo)
           alert == alertObj[id]
           crossed == PriceCrossed(previousPrice, h.price, alert.threshold, alert.direction)
           observed == IF firstObs[id] # "pending" THEN firstObs[id]
                       ELSE IF crossed THEN "fired" ELSE "missed"
       IN  IF AlreadyTriggered(alert) \/ ~getLoan(alert.token)
           THEN /\ handlers' = [handlers EXCEPT ![running].todo = Tail(h.todo)]
                /\ UNCHANGED <<alertObj, notified, running, firstObs>>
           ELSE /\ firstObs' = [firstObs EXCEPT ![id] = observed]
                /\ IF crossed
                   THEN \* mark, then call sendNotification and await it
                        /\ alertObj' = [alertObj EXCEPT ![id] = MarkTriggered(alert)]
                        /\ notified' = [notified EXCEPT ![id] = @ + 1]
                        /\ handlers' = [handlers EXCEPT ![running].todo = Tail(h.todo),
                                                        ![running].awaiting = id]
                        /\ running' = 0
                   ELSE /\ handlers' = [handlers EXCEPT ![running].todo = Tail(h.todo)]
                        /\ UNCHANGED <<alertObj, notified, running>>
    /\ UNCHANGED <<loans, loanCount, chatToToken, priceAlerts, ltvAlerts, lastPrice,
                   previousPrice, previousLtvs, history>>

\* checkPriceAlerts returns; checkLtvAlerts takes its snapshot
checkLtvAlertsStart ==
    /\ running # 0
    /\ handlers[running].phase = "price"
    /\ handlers[running].todo = <<>>
    /\ handlers' = [handlers EXCEPT ![running].phase = "ltv",
                                    ![running].todo = getAllLtvAlerts]
    /\ UNCHANGED <<running, lastPrice, previousPrice, previousLtvs, notified,
                   history, firstObs>>
    /\ StoreUnchanged

\* one iteration of the first for loop of checkLtvAlerts
checkLtvAlertsStep ==
    /\ running # 0
    /\ handlers[running].phase = "ltv"
    /\ handlers[running].todo # <<>>
    /\ LET h == handlers[running]
           id == Head(h.todo)
           alert == alertObj[id]
       IN  IF AlreadyTriggered(alert) \/ ~getLoan(alert.token)
              \/ loans[alert.token].btc_collateral * h.price <= 0
           THEN /\ handlers' = [handlers EXCEPT ![running].todo = Tail(h.todo)]
                /\ UNCHANGED <<alertObj, notified, running, firstObs>>
           ELSE /\ UNCHANGED firstObs
                /\ IF LtvCrossed(PreviousLtvOf(alert.token), Ltv(loans[alert.token], h.price),
                                 alert.threshold, alert.direction)
                   THEN /\ alertObj' = [alertObj EXCEPT ![id] = MarkTriggered(alert)]
                        /\ notified' = [notified EXCEPT ![id] = @ + 1]
                        /\ handlers' = [handlers EXCEPT ![running].todo = Tail(h.todo),
                                                        ![running].awaiting = id]
                        /\ running' = 0
                   ELSE /\ handlers' = [handlers EXCEPT ![running].todo = Tail(h.todo)]
                        /\ UNCHANGED <<alertObj, notified, running>>
    /\ UNCHANGED <<loans, loanCount, chatToToken, priceAlerts, ltvAlerts, lastPrice,
                   previousPrice, previousLtvs, history>>

\* a refresh that covers only the loans that have an LTV alert
RefreshedLtvsOfAlerts(price) ==
    LET fresh == {t \in DOMAIN loans :
                    /\ loans[t].btc_collateral * price > 0
                    /\ \E a \in ltvAlerts : alertObj[a].token = t}
    IN  [t \in fresh \cup DOMAIN previousLtvs |->
            IF t \in fresh THEN Ltv(loans[t], price) ELSE previousLtvs[t]]

\* the second loop of checkLtvAlerts: previousLtvs.set for every loan of the
\* store whose collateral value is positive
RefreshedLtvs(price) ==
    LET fresh == {t \in DOMAIN loans : loans[t].btc_collateral * price > 0}
    IN  [t \in fresh \cup DOMAIN previousLtvs |->
            IF t \in fresh THEN Ltv(loans[t], price) ELSE previousLtvs[t]]

\* the end of checkLtvAlerts, then this.previousPrice = currentPrice
onPriceUpdateEnd ==
    /\ running # 0
    /\ handlers[running].phase = "ltv"
    /\ handlers[running].todo = <<>>
    /\ previousLtvs' = RefreshedLtvs(handlers[running].price)
    /\ previousPrice' = handlers[running].price
    /\ handlers' = [handlers EXCEPT ![running] = IdleHandler]
    /\ running' = 0
    /\ UNCHANGED <<lastPrice, notified, history, firstObs>>
    /\ StoreUnchanged

\* the awaited sendNotification resolves: the sweep emits ALERT_TRIGGERED and goes on
notifyResolved(i) ==
    /\ Idle
    /\ handlers[i].awaiting # 0
    /\ history' = Append(history, handlers[i].awaiting)
    /\ handlers' = [handlers EXCEPT ![i].awaiting = 0]
    /\ running' = i
    /\ UNCHANGED <<lastPrice, previousPrice, previousLtvs, notified, firstObs>>
    /\ StoreUnchanged

\* a rejection handler that re-arms the alert for a retry
notifyRejectedRearm(i) ==
    /\ Idle
    /\ handlers[i].awaiting # 0
    /\ alertObj' = [alertObj EXCEPT ![handlers[i].awaiting].triggered = FALSE]
    /\ handlers' = [handlers EXCEPT ![i] = IdleHandler]
    /\ UNCHANGED <<running, lastPrice, previousPrice, previousLtvs, notified,
                   history, firstObs, loans, loanCount, chatToToken, priceAlerts, ltvAlerts>>

\* the awaited sendNotification rejects (or the call throws): nothing catches
\* it, so checkPriceAlerts / checkLtvAlerts and onPriceUpdate end there
notifyRejected(i) ==
    /\ Idle
    /\ handlers[i].awaiting # 0
    /\ handlers' = [handlers EXCEPT ![i] = IdleHandler]
    /\ UNCHANGED <<running, lastPrice, previousPrice, previousLtvs, notified,
                   history, firstObs>>
    /\ StoreUnchanged

(***************************************************************************)
(* PriceAggregator                                                         *)
(***************************************************************************)
Abs(x) == IF x < 0 THEN -x ELSE x

\* Map.set: an existing key keeps its place in the iteration order, a new key
\* goes last
MapSet(entries, source, price, timestamp) ==
    LET entry == [source |-> source, price |-> price, timestamp |-> timestamp]
    IN  IF \E k \in 1..Len(entries) : entries[k].source = source
        THEN [k \in 1..Len(entries) |->
                IF entries[k].source = source THEN entry ELSE entries[k]]
        ELSE Append(entries, entry)

\* a call that returned no update: ingestTick (void), computeUpdate (null)
NoUpdate(call) ==
    [call |-> call, isNull |-> TRUE, price |-> 0, timestamp |-> 0, sources |-> <<>>,
     twap_5m |-> [n |-> 0, d |-> 1], confidence |-> "LOW", circuit_breaker |-> FALSE]

ingestTick(source, price, timestamp) ==
    /\ sourcePrices' = MapSet(sourcePrices, source, price, timestamp)
    /\ lastResult' = NoUpdate("ingestTick")
    /\ UNCHANGED <<now, samples, circuitBreakerActive, lastKnownGoodPrice,
                   circuitBreakerTriggeredAt, config>>

\* a freshness test that keeps a tick of age exactly staleThreshold
isFreshInclusive(entry) == now - entry.timestamp <= staleThreshold

\* now - data.timestamp < staleThreshold
isFresh(entry) == now - entry.timestamp < staleThreshold

\* every stored tick, stale ones included
allSources == sourcePrices

activeSources == SelectSeq(sourcePrices, isFresh)

\* a sources list that names the first active source only
firstSourceName(active) == <<active[1].source>>

sourceNames(active) == [k \in 1..Len(active) |-> active[k].source]

sourcePricesOf(active) == [k \in 1..Len(active) |-> active[k].price]

RECURSIVE insertSorted(_, _)
insertSorted(x, sorted) ==
    IF sorted = <<>> THEN <<x>>
    ELSE IF x <= Head(sorted) THEN <<x>> \o sorted
    ELSE <<Head(sorted)>> \o insertSorted(x, Tail(sorted))

\* prices.sort((a, b) => a - b)
RECURSIVE sortAscending(_)
sortAscending(prices) ==
    IF prices = <<>> THEN <<>>
    ELSE insertSorted(Head(prices), sortAscending(Tail(prices)))

\* a median that takes the lower middle price of an even count
medianPriceLowerMiddle(prices) == prices[(Len(prices) + 1) \div 2]

\* the median of the sorted prices (prices[] is 0-based in the program)
medianPrice(prices) ==
    LET n == Len(prices)
    IN  IF n % 2 = 1
        THEN prices[(n \div 2) + 1]
        ELSE (prices[n \div 2] + prices[(n \div 2) + 1]) \div 2

\* pctChange > circuit_breaker_pct / 100, with pctChange = |median - lkg| / lkg
exceedsBreaker(median, lkg) == Abs(median - lkg) * 100 > circuit_breaker_pct * lkg

\* now - this.circuitBreakerTriggeredAt < 60_000
\* a hold that still suppresses at exactly breakerHoldMs
withinHoldInclusive(triggeredAt) == now - triggeredAt <= breakerHoldMs

\* if (now - this.circuitBreakerTriggeredAt < 60_000)
withinHold(triggeredAt) == now - triggeredAt < breakerHoldMs

\* a ring that is never trimmed
addSampleUnbounded(ring, sample) == Append(ring, sample)

\* addSample: push, then keep the last maxSamples
addSample(ring, sample) ==
    LET pushed == Append(ring, sample)
    IN  IF Len(pushed) > maxSamples
        THEN SubSeq(pushed, Len(pushed) - maxSamples + 1, Len(pushed))
        ELSE pushed

RECURSIVE weightedSum(_, _)
weightedSum(window, i) ==
    IF i > Len(window) THEN 0
    ELSE LET end == IF i < Len(window) THEN window[i + 1].timestamp ELSE now
         IN  window[i].price * (end - window[i].timestamp) + weightedSum(window, i + 1)

\* a window that leaves out the sample lying exactly on the cutoff
inWindowStrict(sample) == sample.timestamp > now - twapWindowMs

\* s.timestamp >= cutoff, with cutoff = now - windowMs
inWindow(sample) == sample.timestamp >= now - twapWindowMs

\* computeTwap over ring, as the fraction n / d
computeTwap(ring, lkg) ==
    LET window == SelectSeq(ring, inWindow)
        totalWeight == now - window[1].timestamp
    IN  IF Len(window) = 0 THEN [n |-> lkg, d |-> 1]
        ELSE IF Len(window) = 1 THEN [n |-> window[1].price, d |-> 1]
        ELSE IF totalWeight > 0 THEN [n |-> weightedSum(window, 1), d |-> totalWeight]
        ELSE [n |-> window[Len(window)].price, d |-> 1]

RECURSIVE minOf(_)
minOf(prices) ==
    IF Len(prices) = 1 THEN prices[1]
    ELSE LET m == minOf(Tail(prices)) IN IF prices[1] < m THEN prices[1] ELSE m

RECURSIVE maxOf(_)
maxOf(prices) ==
    IF Len(prices) = 1 THEN prices[1]
    ELSE LET m == maxOf(Tail(prices)) IN IF prices[1] > m THEN prices[1] ELSE m

\* a confidence whose HIGH band reaches up to a spread of 0.01
computeConfidenceWide(active) ==
    LET prices == sourcePricesOf(active)
    IN  IF Len(active) >= 3
        THEN IF (maxOf(prices) - minOf(prices)) * 100 < minOf(prices) THEN "HIGH"
             ELSE "LOW"
        ELSE IF Len(active) = 2 THEN "MEDIUM"
        ELSE "LOW"

\* computeConfidence: spread = (max - min) / min against 0.005 and 0.01
computeConfidence(active) ==
    LET prices == sourcePricesOf(active)
        min == minOf(prices)
        max == maxOf(prices)
    IN  IF Len(active) >= 3
        THEN IF (max - min) * 1000 < 5 * min THEN "HIGH"
             ELSE IF (max - min) * 100 < min THEN "MEDIUM"
             ELSE "LOW"
        ELSE IF Len(active) = 2 THEN "MEDIUM"
        ELSE "LOW"

\* an update that reports the price accepted before the call instead of the median
PriceUpdateStale(median, active, ring, lkg, tripped) ==
    [call |-> "computeUpdate", isNull |-> FALSE, price |-> lastKnownGoodPrice,
     timestamp |-> now, sources |-> sourceNames(active),
     twap_5m |-> computeTwap(ring, lkg), confidence |-> computeConfidence(active),
     circuit_breaker |-> tripped]

PriceUpdate(median, active, ring, lkg, tripped) ==
    [call |-> "computeUpdate", isNull |-> FALSE, price |-> median, timestamp |-> now,
     sources |-> sourceNames(active), twap_5m |-> computeTwap(ring, lkg),
     confidence |-> computeConfidence(active), circuit_breaker |-> tripped]

\* a tripped update that samples the rejected median
trippedSamplePriceMedian(median) == median

\* the sample of a tripped update: price: this.lastKnownGoodPrice
trippedSamplePrice(median) == lastKnownGoodPrice

\* a tripped update that advances lastKnownGoodPrice all the same
lastKnownGoodAfterTripMedian(median) == median

\* the tripped branch returns before this.lastKnownGoodPrice = medianPrice
lastKnownGoodAfterTrip(median) == lastKnownGoodPrice

computeUpdate ==
    LET active == activeSources
        median == medianPrice(sortAscending(sourcePricesOf(active)))
        exceeded == lastKnownGoodPrice > 0 /\ exceedsBreaker(median, lastKnownGoodPrice)
        \* if (!this.circuitBreakerActive) { active = true; triggeredAt = now }
        triggeredAt == IF exceeded /\ ~circuitBreakerActive
                       THEN now ELSE circuitBreakerTriggeredAt
        tripped == exceeded /\ withinHold(triggeredAt)
        held == addSample(samples, [price |-> trippedSamplePrice(median), timestamp |-> now])
        accepted == addSample(samples, [price |-> median, timestamp |-> now])
    IN  IF Len(active) = 0
        THEN /\ lastResult' = NoUpdate("computeUpdate")
             /\ UNCHANGED <<now, sourcePrices, samples, circuitBreakerActive,
                            lastKnownGoodPrice, circuitBreakerTriggeredAt, config>>
        ELSE IF tripped
        THEN /\ circuitBreakerActive' = TRUE
             /\ circuitBreakerTriggeredAt' = triggeredAt
             /\ samples' = held
             /\ lastKnownGoodPrice' = lastKnownGoodAfterTrip(median)
             /\ lastResult' = PriceUpdate(median, active, held,
                                          lastKnownGoodAfterTrip(median), TRUE)
             /\ UNCHANGED <<now, sourcePrices, config>>
        ELSE /\ circuitBreakerActive' =
                    IF lastKnownGoodPrice > 0 THEN FALSE ELSE circuitBreakerActive
             /\ circuitBreakerTriggeredAt' = triggeredAt
             /\ lastKnownGoodPrice' = median
             /\ samples' = accepted
             /\ lastResult' = PriceUpdate(median, active, accepted, median, FALSE)
             /\ UNCHANGED <<now, sourcePrices, config>>

\* time passes
clockTick ==
    /\ now < MaxClock * ClockStep
    /\ now' = now + ClockStep
    /\ lastResult' = NoUpdate("none")
    /\ UNCHANGED <<sourcePrices, samples, circuitBreakerActive, lastKnownGoodPrice,
                   circuitBreakerTriggeredAt, config>>

\* time passes, step ms at a time up to horizon
clockAdvance(step, horizon) ==
    /\ now + step <= horizon
    /\ now' = now + step
    /\ lastResult' = NoUpdate("none")
    /\ UNCHANGED <<sourcePrices, samples, circuitBreakerActive, lastKnownGoodPrice,
                   circuitBreakerTriggeredAt, config>>

\* updateConfig(config) { this.config = config }
updateConfig(seconds) ==
    /\ config' = [twap_window_seconds |-> seconds]
    /\ lastResult' = NoUpdate("updateConfig")
    /\ UNCHANGED <<now, sourcePrices, samples, circuitBreakerActive,
                   lastKnownGoodPrice, circuitBreakerTriggeredAt>>

(***************************************************************************)
(* A price source. The three classes differ in the URL, the subscription   *)
(* message and the parsing of a ticker message only.                       *)
(***************************************************************************)
\* new WebSocket(url) and the four this.ws.on(...) calls
NewSocket == [readyState |-> "CONNECTING", listeners |-> TRUE]

\* ws.close(): a socket that is not closed yet starts closing
closeSocket(all, k) ==
    IF k # 0 /\ all[k].readyState \in {"CONNECTING", "OPEN"}
    THEN [all EXCEPT ![k].readyState = "CLOSING"]
    ELSE all

\* no message handler has run in the last step
NoMessage == [shape |-> "none", price |-> [isNaN |-> TRUE, value |-> 0]]

\* connect(): the new socket replaces this.ws; the old object is not touched
connect ==
    /\ Len(sockets) < MaxSockets
    /\ sockets' = Append(sockets, NewSocket)
    /\ ws' = Len(sockets) + 1

\* clearTimeout(handle): a pending timer is cancelled, any other is left as it is
clearTimeout(all, handle) ==
    IF handle # 0 /\ all[handle].state = "pending"
    THEN [all EXCEPT ![handle].state = "cleared"]
    ELSE all

\* a scheduleReconnect that does not cancel the timer it replaces
scheduleReconnectKeeping ==
    /\ timers' = Append(timers, [state |-> "pending", delay |-> reconnectDelayMs])
    /\ reconnectTimer' = Len(timers) + 1

\* scheduleReconnect(): clears the timer of the handle and sets a new one
scheduleReconnect ==
    /\ timers' = Append(clearTimeout(timers, reconnectTimer),
                        [state |-> "pending", delay |-> reconnectDelayMs])
    /\ reconnectTimer' = Len(timers) + 1

\* start() { this.connect() }
sourceStart ==
    /\ connect
    /\ stopped' = FALSE
    /\ lastMessage' = NoMessage
    /\ UNCHANGED <<timers, reconnectTimer, sourceTicks, lastPriceOfSource,
                   lastTimestamp>>

\* stop(): clearTimeout, and for the current socket removeAllListeners, close,
\* this.ws = null
sourceStop ==
    /\ timers' = clearTimeout(timers, reconnectTimer)
    /\ sockets' = IF ws # 0
                  THEN closeSocket([sockets EXCEPT ![ws].listeners = FALSE], ws)
                  ELSE sockets
    /\ ws' = 0
    /\ stopped' = TRUE
    /\ lastMessage' = NoMessage
    /\ UNCHANGED <<reconnectTimer, sourceTicks, lastPriceOfSource, lastTimestamp>>

\* socket k opens; its "open" listener sends the subscription
onOpen(k) ==
    /\ sockets[k].readyState = "CONNECTING"
    /\ sockets' = [sockets EXCEPT ![k].readyState = "OPEN"]
    /\ lastMessage' = NoMessage
    /\ UNCHANGED <<ws, timers, reconnectTimer, stopped, sourceTicks,
                   lastPriceOfSource, lastTimestamp>>

\* a price test that lets a price of 0 through
isNonNegativePrice(price) == ~price.isNaN /\ price.value >= 0

\* if (price > 0), price being the result of parseFloat (NaN > 0 is false)
isPositivePrice(price) == ~price.isNaN /\ price.value > 0

\* does the message handler of socket k emit a tick for msg: JSON.parse
\* succeeds, the message has the exchange's ticker shape and its price is > 0
\* (anything thrown on the way is caught and the message skipped)
isTick(msg) == msg.shape = "ticker" /\ isPositivePrice(msg.price)

\* socket k delivers msg to its "message" listener
onMessage(k, msg) ==
    /\ sockets[k].readyState = "OPEN"
    /\ sockets[k].listeners
    /\ lastMessage' = msg
    /\ IF isTick(msg)
       THEN /\ Len(sourceTicks) < MaxTicks
            /\ lastPriceOfSource' = msg.price.value
            /\ lastTimestamp' = now
            /\ sourceTicks' = Append(sourceTicks,
                    [price |-> msg.price.value, timestamp |-> now])
       ELSE UNCHANGED <<sourceTicks, lastPriceOfSource, lastTimestamp>>
    /\ UNCHANGED <<sockets, ws, timers, reconnectTimer, stopped>>

\* socket k fails: its "error" listener closes this.ws, and the transport
\* closes socket k
onError(k) ==
    /\ sockets[k].readyState \in {"CONNECTING", "OPEN"}
    /\ sockets' = closeSocket(IF sockets[k].listeners
                              THEN closeSocket(sockets, ws) ELSE sockets, k)
    /\ lastMessage' = NoMessage
    /\ UNCHANGED <<ws, timers, reconnectTimer, stopped, sourceTicks,
                   lastPriceOfSource, lastTimestamp>>

\* socket k is closed (by close() or by the peer); its "close" listener
\* schedules a reconnect
onClose(k) ==
    /\ sockets[k].readyState # "CLOSED"
    /\ sockets' = [sockets EXCEPT ![k].readyState = "CLOSED"]
    /\ IF sockets[k].listeners THEN scheduleReconnect
       ELSE UNCHANGED <<timers, reconnectTimer>>
    /\ lastMessage' = NoMessage
    /\ UNCHANGED <<ws, stopped, sourceTicks, lastPriceOfSource, lastTimestamp>>

\* timer t fires: setTimeout(() => this.connect(), 5000)
reconnectTimerFires(t) ==
    /\ timers[t].state = "pending"
    /\ timers' = [timers EXCEPT ![t].state = "fired"]
    /\ connect
    /\ lastMessage' = NoMessage
    /\ UNCHANGED <<reconnectTimer, stopped, sourceTicks, lastPriceOfSource,
                   lastTimestamp>>

(***************************************************************************)
(* EventBus                                                                *)
(***************************************************************************)
\* emitSystemEvent: push, then keep the last maxHistory
pushHistory(h, event) ==
    LET pushed == Append(h, event)
    IN  IF Len(pushed) > maxHistory
        THEN SubSeq(pushed, Len(pushed) - maxHistory + 1, Len(pushed))
        ELSE pushed

\* emitSystemEvent for each event of events, in order
RECURSIVE pushAll(_, _)
pushAll(h, events) ==
    IF events = <<>> THEN h
    ELSE pushAll(pushHistory(h, Head(events)), Tail(events))

\* array.slice(-limit): the last limit elements; slice(-0) is slice(0), the
\* whole array
sliceLast(array, limit) ==
    IF limit = 0 \/ limit >= Len(array) THEN array
    ELSE SubSeq(array, Len(array) - limit + 1, Len(array))

hasType(event, type) == event.type = type

\* no getHistory call in the last step
NoHistoryCall == [type |-> "none", limit |-> 0, value |-> <<>>]

\* an event emitted by some service; its timestamp tells the events apart
emitSystemEvent(type) ==
    /\ emitted < MaxEmitted
    /\ emitted' = emitted + 1
    /\ eventHistory' = pushHistory(eventHistory, [type |-> type, timestamp |-> emitted + 1])
    /\ historyResult' = NoHistoryCall

\* getHistory(type, limit)
getHistory(type, limit) ==
    /\ historyResult' =
            [type |-> type, limit |-> limit,
             value |-> sliceLast(SelectSeq(eventHistory, LAMBDA e : hasType(e, type)), limit)]
    /\ UNCHANGED <<eventHistory, emitted>>

(***************************************************************************)
(* PriceOracleService                                                      *)
(***************************************************************************)
\* clearInterval(handle)
clearInterval(all, handle) ==
    IF handle # 0 THEN [all EXCEPT ![handle] = "cleared"] ELSE all

\* source.instance.start() for each source: every source connects one socket more
startSources == [source \in Sources |-> liveSockets[source] + 1]

\* source.instance.stop() for each source: a source detaches and closes the
\* socket it refers to, and no other
stopSources ==
    [source \in Sources |->
        IF liveSockets[source] > 0 THEN liveSockets[source] - 1 ELSE 0]

\* a start() without the test of this.running
oracleStartUnguarded ==
    /\ Len(intervals) < MaxIntervals
    /\ oracleRunning' = TRUE
    /\ liveSockets' = startSources
    /\ intervals' = Append(intervals, "active")
    /\ pollTimer' = Len(intervals) + 1
    /\ published' = <<>>
    /\ UNCHANGED <<oracleConfig, lastUpdate>>

\* start()
oracleStart ==
    IF oracleRunning
    THEN /\ published' = <<>>
         /\ UNCHANGED <<oracleRunning, intervals, pollTimer, liveSockets,
                        oracleConfig, lastUpdate>>
    ELSE /\ Len(intervals) < MaxIntervals
         /\ oracleRunning' = TRUE
         /\ liveSockets' = startSources
         /\ intervals' = Append(intervals, "active")
         /\ pollTimer' = Len(intervals) + 1
         /\ published' = <<>>
         /\ UNCHANGED <<oracleConfig, lastUpdate>>

\* a stop() that leaves the poll timer running
oracleStopKeepingTimer ==
    /\ oracleRunning' = FALSE
    /\ liveSockets' = stopSources
    /\ published' = <<>>
    /\ UNCHANGED <<intervals, pollTimer, oracleConfig, lastUpdate>>

\* stop()
oracleStop ==
    /\ oracleRunning' = FALSE
    /\ intervals' = clearInterval(intervals, pollTimer)
    /\ pollTimer' = 0
    /\ liveSockets' = stopSources
    /\ published' = <<>>
    /\ UNCHANGED <<oracleConfig, lastUpdate>>

\* a SOURCE_DEGRADED test that also fires with exactly min_sources sources
isDegradedInclusive(update) == Len(update.sources) <= oracleConfig.min_sources

\* update.sources.length < this.config.min_sources
isDegraded(update) == Len(update.sources) < oracleConfig.min_sources

\* what tick() publishes for update: price:update on its channel, then the
\* system events
publications(update) ==
    <<"price:update", "PRICE_UPDATE">>
        \o (IF update.circuit_breaker THEN <<"CIRCUIT_BREAKER">> ELSE <<>>)
        \o (IF isDegraded(update) THEN <<"SOURCE_DEGRADED">> ELSE <<>>)

\* the system events among the publications, as emitSystemEvent gets them
systemEvents(pubs, update) ==
    [k \in 1..(Len(pubs) - 1) |-> [type |-> pubs[k + 1], timestamp |-> update.timestamp]]

\* interval timer t fires: tick()
tick(t) ==
    /\ intervals[t] = "active"
    /\ computeUpdate
    /\ IF lastResult'.isNull
       THEN /\ published' = <<>>
            /\ UNCHANGED <<lastUpdate, eventHistory>>
       ELSE /\ lastUpdate' = lastResult'
            /\ published' = publications(lastResult')
            /\ eventHistory' = pushAll(eventHistory,
                                       systemEvents(publications(lastResult'), lastResult'))
    /\ UNCHANGED <<oracleRunning, intervals, pollTimer, liveSockets, oracleConfig,
                   emitted, historyResult>>

\* the price:source_tick subscriber: a tick of a source that holds a socket
\* with listeners reaches the aggregator
onSourceTick(source, price) ==
    /\ liveSockets[source] > 0
    /\ ingestTick(source, price, now)
    /\ published' = <<>>
    /\ UNCHANGED <<oracleRunning, intervals, pollTimer, liveSockets, oracleConfig,
                   lastUpdate>>

(***************************************************************************)
(* ConversationManager and the chat handlers                               *)
(***************************************************************************)
\* text.toLowerCase(), on the texts a chat sends
toLowerCase(text) ==
    CASE text = "CANCEL" -> "cancel"
      [] text = "YES" -> "yes"
      [] OTHER -> text

\* input.replace(/[chars]/g, ""), on the texts a chat sends
strip(text, chars) ==
    IF text = "$75" /\ "$" \in chars THEN "75" ELSE text

\* parseFloat(text): the number the text starts with, NaN when it starts with
\* none
parseFloat(text) ==
    CASE text = "0" -> [isNaN |-> FALSE, value |-> 0]
      [] text = "75" -> [isNaN |-> FALSE, value |-> 75]
      [] text = "100" -> [isNaN |-> FALSE, value |-> 100]
      [] text = "2025-12-31" -> [isNaN |-> FALSE, value |-> 2025]
      [] OTHER -> [isNaN |-> TRUE, value |-> 0]

\* /^\d{4}-\d{2}-\d{2}$/ and a date that exists
isDate(text) == text = "2025-12-31"

\* the steps STEP_CONFIG has an entry for
ConfiguredSteps == ConversationSteps \ {"IDLE", "CONFIRM"}

\* STEP_CONFIG[step].field
stepField(step) ==
    CASE step = "AWAITING_AMOUNT" -> "loan_amount_usd"
      [] step = "AWAITING_COLLATERAL" -> "btc_collateral"
      [] step = "AWAITING_MARGIN_CALL" -> "margin_call_ltv"
      [] step = "AWAITING_LIQUIDATION" -> "liquidation_ltv"
      [] step = "AWAITING_INTEREST" -> "interest_rate"
      [] step = "AWAITING_END_DATE" -> "end_date"
      [] step = "AWAITING_LENDER" -> "lender_name"

\* a nextStep that passes over the end date
nextStepSkippingEndDate(step) ==
    CASE step = "AWAITING_AMOUNT" -> "AWAITING_COLLATERAL"
      [] step = "AWAITING_COLLATERAL" -> "AWAITING_MARGIN_CALL"
      [] step = "AWAITING_MARGIN_CALL" -> "AWAITING_LIQUIDATION"
      [] step = "AWAITING_LIQUIDATION" -> "AWAITING_INTEREST"
      [] step = "AWAITING_INTEREST" -> "AWAITING_LENDER"
      [] step = "AWAITING_END_DATE" -> "AWAITING_LENDER"
      [] step = "AWAITING_LENDER" -> "CONFIRM"

\* STEP_CONFIG[step].nextStep
nextStep(step) ==
    CASE step = "AWAITING_AMOUNT" -> "AWAITING_COLLATERAL"
      [] step = "AWAITING_COLLATERAL" -> "AWAITING_MARGIN_CALL"
      [] step = "AWAITING_MARGIN_CALL" -> "AWAITING_LIQUIDATION"
      [] step = "AWAITING_LIQUIDATION" -> "AWAITING_INTEREST"
      [] step = "AWAITING_INTEREST" -> "AWAITING_END_DATE"
      [] step = "AWAITING_END_DATE" -> "AWAITING_LENDER"
      [] step = "AWAITING_LENDER" -> "CONFIRM"

\* the number a step reads from its input
stepNumber(step, input) ==
    CASE step = "AWAITING_AMOUNT" -> parseFloat(strip(input, {",", "$"}))
      [] step = "AWAITING_COLLATERAL" -> parseFloat(input)
      [] OTHER -> parseFloat(strip(input, {"%"}))

\* STEP_CONFIG[step].validate(input): the error message, "" for null
validate(step, input) ==
    LET n == stepNumber(step, input)
    IN  CASE step = "AWAITING_AMOUNT" ->
                IF n.isNaN \/ n.value <= 0 THEN "not a positive number"
                ELSE IF n.value > maxLoanAmount THEN "too high"
                ELSE ""
          [] step = "AWAITING_COLLATERAL" ->
                IF n.isNaN \/ n.value <= 0 THEN "not a positive number"
                ELSE IF n.value > maxCollateral THEN "too high"
                ELSE ""
          [] step \in {"AWAITING_MARGIN_CALL", "AWAITING_LIQUIDATION"} ->
                IF n.isNaN \/ n.value <= 0 \/ n.value > maxLtvPercent
                THEN "not a percentage between 1 and 100" ELSE ""
          [] step = "AWAITING_INTEREST" ->
                IF toLowerCase(input) = "skip" THEN ""
                ELSE IF n.isNaN \/ n.value < 0 \/ n.value > maxInterestPercent
                THEN "not a percentage between 0 and 200" ELSE ""
          [] step = "AWAITING_END_DATE" ->
                IF toLowerCase(input) = "skip" THEN ""
                ELSE IF ~isDate(input) THEN "not a date" ELSE ""
          [] step = "AWAITING_LENDER" -> ""

\* STEP_CONFIG[step].extract(input); the two LTV steps divide the percentage by
\* 100, which gives the hundredths LTV values are kept in
extract(step, input) ==
    CASE step \in {"AWAITING_AMOUNT", "AWAITING_COLLATERAL", "AWAITING_MARGIN_CALL",
                   "AWAITING_LIQUIDATION"} -> stepNumber(step, input).value
      [] step = "AWAITING_INTEREST" ->
            IF toLowerCase(input) = "skip" THEN null
            ELSE some(stepNumber(step, input).value)
      [] step \in {"AWAITING_END_DATE", "AWAITING_LENDER"} ->
            IF toLowerCase(input) = "skip" THEN null ELSE some(input)

\* getConversation(chatId) is not null
getConversation(chatId) == chatId \in DOMAIN conversations

\* startConversation(chatId)
startConversation(all, chatId) ==
    (chatId :> [step |-> "AWAITING_AMOUNT", partial |-> <<>>]) @@ all

\* updateConversation(chatId, step, partial): Object.assign onto the partial
updateConversation(all, chatId, step, field, value) ==
    [all EXCEPT ![chatId] = [step |-> step,
                             partial |-> (field :> value) @@ all[chatId].partial]]

\* clearConversation(chatId)
clearConversation(all, chatId) == Restrict(all, DOMAIN all \ {chatId})

\* the step of the chat's conversation, IDLE without one
stepOf(chatId) ==
    IF getConversation(chatId) THEN conversations[chatId].step ELSE "IDLE"

\* no processInput call in the last step
NoProcess == [call |-> "none", nextStep |-> "IDLE", error |-> "", field |-> ""]

\* what processInput(chatId, input) returns
processInputReturns(chatId, input) ==
    IF ~getConversation(chatId)
    THEN [call |-> "processInput", nextStep |-> "IDLE",
          error |-> "No active conversation.", field |-> ""]
    ELSE LET step == conversations[chatId].step
         IN  IF step \notin ConfiguredSteps
             THEN [call |-> "processInput", nextStep |-> "IDLE",
                   error |-> "Invalid conversation state.", field |-> ""]
             ELSE IF validate(step, input) # ""
             THEN [call |-> "processInput", nextStep |-> step,
                   error |-> validate(step, input), field |-> ""]
             ELSE [call |-> "processInput", nextStep |-> nextStep(step),
                   error |-> "", field |-> stepField(step),
                   value |-> extract(step, input)]

\* processInput(chatId, input), as far as it writes
processInputWrites(chatId, input) ==
    IF processInputReturns(chatId, input).error = ""
    THEN conversations' =
            updateConversation(conversations, chatId,
                               nextStep(conversations[chatId].step),
                               stepField(conversations[chatId].step),
                               extract(conversations[chatId].step, input))
    ELSE UNCHANGED conversations

\* processInput(chatId, input), called on the manager
processInput(chatId, input) ==
    /\ processInputWrites(chatId, input)
    /\ processResult' = processInputReturns(chatId, input)
    /\ chatInput' = [handler |-> "processInput", chatId |-> chatId, text |-> input,
                     step |-> stepOf(chatId)]
    /\ UNCHANGED alertVars

\* /newloan
handleNewLoan(chatId) ==
    /\ IF getLoanByChatId(chatId) # 0
       THEN UNCHANGED conversations
       ELSE conversations' =
                startConversation(clearConversation(conversations, chatId), chatId)
    /\ chatInput' = [handler |-> "handleNewLoan", chatId |-> chatId, text |-> "/newloan",
                     step |-> stepOf(chatId)]
    /\ processResult' = NoProcess
    /\ UNCHANGED alertVars

\* /delete confirm
handleDelete(chatId) ==
    /\ IF getLoanByChatId(chatId) # 0
       THEN deleteLoan(getLoanByChatId(chatId))
       ELSE UNCHANGED alertVars
    /\ chatInput' = [handler |-> "handleDelete", chatId |-> chatId,
                     text |-> "/delete confirm", step |-> stepOf(chatId)]
    /\ processResult' = NoProcess
    /\ UNCHANGED conversations

\* updateLoan(token, updates): Object.assign(loan, updates)
updateLoan(token, updates) ==
    /\ Idle
    /\ IF getLoan(token)
       THEN loans' = [loans EXCEPT ![token] = updates @@ loans[token]]
       ELSE UNCHANGED loans
    /\ UNCHANGED <<loanCount, chatToToken, alertObj, priceAlerts, ltvAlerts, lastPrice,
                   firstObs>>
    /\ EngineUnchanged

\* /^\d{4}-\d{2}-\d{2}$/.test(value)
isDateFormat(text) == text = "2025-12-31"

\* the updates /edit field value builds; <<>> when it replies with an error
\* instead (LTV values are kept in hundredths)
editUpdates(field, value) ==
    LET n == CASE field = "amount" -> parseFloat(strip(value, {",", "$"}))
               [] field = "collateral" -> parseFloat(value)
               [] OTHER -> parseFloat(strip(value, {"%"}))
    IN  CASE field = "amount" ->
                IF n.isNaN \/ n.value <= 0 THEN <<>> ELSE "loan_amount_usd" :> n.value
          [] field = "collateral" ->
                IF n.isNaN \/ n.value <= 0 THEN <<>> ELSE "btc_collateral" :> n.value
          [] field = "margincall" ->
                IF n.isNaN \/ n.value <= 0 \/ n.value > maxLtvPercent THEN <<>>
                ELSE "margin_call_ltv" :> n.value
          [] field = "liquidation" ->
                IF n.isNaN \/ n.value <= 0 \/ n.value > maxLtvPercent THEN <<>>
                ELSE "liquidation_ltv" :> n.value
          [] field = "interest" ->
                IF n.isNaN \/ n.value < 0 THEN <<>> ELSE "interest_rate" :> some(n.value)
          [] field = "enddate" ->
                IF ~isDateFormat(value) THEN <<>> ELSE "end_date" :> some(value)
          [] field = "lender" -> "lender_name" :> some(value)
          [] OTHER -> <<>>

\* /edit field value
handleEdit(chatId, field, value) ==
    /\ IF getLoanByChatId(chatId) # 0 /\ editUpdates(field, value) # <<>>
       THEN updateLoan(getLoanByChatId(chatId), editUpdates(field, value))
       ELSE UNCHANGED alertVars
    /\ chatInput' = [handler |-> "handleEdit", chatId |-> chatId, text |-> "/edit",
                     step |-> stepOf(chatId)]
    /\ processResult' = NoProcess
    /\ UNCHANGED conversations

\* confirmAndCreateLoan(chatId, host), for a chat with a conversation
confirmAndCreateLoan(chatId) ==
    /\ createLoan(chatId, conversations[chatId].partial)
    /\ conversations' = clearConversation(conversations, chatId)

\* is text the confirmation, for a handler that compares the text as it came
isYesExact(text) == text = "yes"

\* text.toLowerCase() === "yes"
isYes(text) == toLowerCase(text) = "yes"

\* handleConversationInput(chatId, text); the replies go to the injected sender
handleConversationInput(chatId, text) ==
    /\ chatInput' = [handler |-> "handleConversationInput", chatId |-> chatId,
                     text |-> text, step |-> stepOf(chatId)]
    /\ IF ~getConversation(chatId)
       THEN /\ processResult' = NoProcess
            /\ UNCHANGED <<conversations, alertVars>>
       ELSE IF toLowerCase(text) = "cancel"
       THEN /\ conversations' = clearConversation(conversations, chatId)
            /\ processResult' = NoProcess
            /\ UNCHANGED alertVars
       ELSE IF conversations[chatId].step = "CONFIRM"
       THEN IF isYes(text)
            THEN /\ confirmAndCreateLoan(chatId)
                 /\ processResult' = NoProcess
            ELSE /\ conversations' = clearConversation(conversations, chatId)
                 /\ processResult' = NoProcess
                 /\ UNCHANGED alertVars
       ELSE /\ processInputWrites(chatId, text)
            /\ processResult' = processInputReturns(chatId, text)
            /\ UNCHANGED alertVars

(***************************************************************************)
(* LoanStore persistence (a store constructed with a data directory)       *)
(***************************************************************************)
\* scheduleSave(): (re)arm the 500 ms timer
scheduleSave == saveTimer' = TRUE /\ UNCHANGED disk

\* the data saveToDisk writes: the entries of the four maps, the alerts with
\* their fields as they are at that moment
PersistentData ==
    [loans |-> loans, chatToToken |-> chatToToken, priceAlerts |-> priceAlerts,
     ltvAlerts |-> ltvAlerts, alertObj |-> alertObj]

\* the save timer fires: saveToDisk()
saveTimerFires ==
    /\ Idle
    /\ saveTimer
    /\ disk' = PersistentData
    /\ saveTimer' = FALSE
    /\ UNCHANGED alertVars

\* flush(): clear the timer and save at once
flush ==
    /\ Idle
    /\ disk' = PersistentData
    /\ saveTimer' = FALSE
    /\ UNCHANGED alertVars

\* the alert objects after loadFromDisk: those of the file, as the file has
\* them (alerts the file does not hold are in no map any more)
loadedAlerts ==
    [id \in 1..Len(alertObj) |->
        IF id <= Len(disk.alertObj) THEN disk.alertObj[id] ELSE alertObj[id]]

\* the process dies and is started again: new LoanStore(dataDir) runs
\* loadFromDisk, new AlertEngine starts with previousPrice = 0 and an empty
\* previousLtvs; pending timers, suspended invocations and the events of the
\* bus are gone
restart ==
    /\ loans' = disk.loans
    /\ chatToToken' = disk.chatToToken
    /\ priceAlerts' = disk.priceAlerts
    /\ ltvAlerts' = disk.ltvAlerts
    /\ alertObj' = loadedAlerts
    /\ lastPrice' = 0
    /\ previousPrice' = 0
    /\ previousLtvs' = <<>>
    /\ handlers' = [i \in 1..MaxHandlers |-> IdleHandler]
    /\ running' = 0
    /\ history' = <<>>
    /\ saveTimer' = FALSE
    /\ UNCHANGED <<disk, loanCount, notified, firstObs>>

(***************************************************************************)
(* DashboardServer                                                         *)
(***************************************************************************)
\* path.match(/^\/dash\/([a-f0-9]{48})$/)
dashMatch(path) == path.prefix = "/dash/" /\ path.hex48

\* a response: the request it answers, the status, the kind of body and the
\* token injected into the body (0: none)
Response(method, path, status, body, token) ==
    [method |-> method, path |-> path, status |-> status, body |-> body, token |-> token]

\* serveDashboard(res, token): the page with the token injected, for any token
serveDashboard(method, path) == Response(method, path, 200, "html", path.token)

\* this.json(res, status, data)
json(method, path, status) == Response(method, path, status, "json", 0)

\* handleRequest(req, res), on the paths exercised
handleRequest(method, path) ==
    /\ response' =
            IF method = "OPTIONS" THEN Response(method, path, 204, "", 0)
            ELSE IF dashMatch(path) /\ method = "GET" THEN serveDashboard(method, path)
            ELSE IF path.prefix = "/health" /\ method = "GET" THEN json(method, path, 200)
            ELSE json(method, path, 404)
    /\ UNCHANGED alertVars

\* the path /api/loan/<token>/alerts/<alertId>, token being 48 hex digits and
\* alertId hex digits
deleteAlertPath(token, alertId) ==
    [prefix |-> "/api/loan/alerts/", token |-> token, hex48 |-> TRUE, alertId |-> alertId]

\* DELETE /api/loan/<token>/alerts/<alertId>: handleRequest routes it to
\* apiDeleteAlert(res, token, alertId)
apiDeleteAlert(token, alertId) ==
    LET path == deleteAlertPath(token, alertId)
        deletedPrice == alertId \in priceAlerts
        deletedLtv == alertId \in ltvAlerts
    IN  /\ Idle
        /\ IF ~getLoan(token)
           THEN /\ response' = json("DELETE", path, 404)
                /\ UNCHANGED <<priceAlerts, ltvAlerts>>
           ELSE /\ priceAlerts' = priceAlerts \ {alertId}
                /\ ltvAlerts' = ltvAlerts \ {alertId}
                /\ response' = json("DELETE", path,
                                    IF deletedPrice \/ deletedLtv THEN 200 ELSE 404)
        /\ UNCHANGED <<loans, loanCount, chatToToken, alertObj, lastPrice, firstObs>>
        /\ EngineUnchanged

(***************************************************************************)
(* The specifications                                                      *)
(***************************************************************************)
AggInit ==
    /\ now = 0
    /\ sourcePrices = <<>>
    /\ samples = <<>>
    /\ circuitBreakerActive = FALSE
    /\ lastKnownGoodPrice = 0
    /\ circuitBreakerTriggeredAt = 0
    /\ config = [twap_window_seconds |-> twap_window_seconds]
    /\ lastResult = NoUpdate("none")

AlertInit ==
    /\ loans = <<>>
    /\ loanCount = 0
    /\ chatToToken = <<>>
    /\ alertObj = <<>>
    /\ priceAlerts = {}
    /\ ltvAlerts = {}
    /\ lastPrice = 0
    /\ previousPrice = 0
    /\ previousLtvs = <<>>
    /\ handlers = [i \in 1..MaxHandlers |-> IdleHandler]
    /\ running = 0
    /\ notified = <<>>
    /\ history = <<>>
    /\ firstObs = <<>>

SourceInit ==
    /\ sockets = <<>>
    /\ ws = 0
    /\ timers = <<>>
    /\ reconnectTimer = 0
    /\ stopped = FALSE
    /\ sourceTicks = <<>>
    /\ lastPriceOfSource = 0
    /\ lastTimestamp = 0
    /\ lastMessage = NoMessage

BusInit ==
    /\ eventHistory = <<>>
    /\ emitted = 0
    /\ historyResult = NoHistoryCall

\* an oracle constructed with min_sources = minSources
OracleInit(minSources) ==
    /\ oracleRunning = FALSE
    /\ intervals = <<>>
    /\ pollTimer = 0
    /\ liveSockets = [source \in Sources |-> 0]
    /\ oracleConfig = [min_sources |-> minSources]
    /\ lastUpdate = NoUpdate("none")
    /\ published = <<>>

\* no store call in the last step
NoReturn == [call |-> "none", token |-> 0, value |-> FALSE]

CallInit == storeReturn = NoReturn

ConvInit ==
    /\ conversations = <<>>
    /\ chatInput = [handler |-> "none", chatId |-> 0, text |-> "", step |-> "IDLE"]
    /\ processResult = NoProcess

\* no request handled yet
NoResponse == [method |-> "none", path |-> [prefix |-> "", token |-> 0, hex48 |-> FALSE],
               status |-> 0, body |-> "", token |-> 0]

HttpInit == response = NoResponse

\* no loans.json yet: loadFromDisk leaves the maps of the constructor
PersistInit ==
    /\ disk = [loans |-> <<>>, chatToToken |-> <<>>, priceAlerts |-> {}, ltvAlerts |-> {},
               alertObj |-> <<>>]
    /\ saveTimer = FALSE

Init == AlertInit /\ AggInit /\ SourceInit /\ BusInit /\ OracleInit(min_sources) /\ CallInit
        /\ ConvInit /\ HttpInit /\ PersistInit

\* as Init, the oracle being constructed with any of the min_sources values
InitOracle ==
    /\ AlertInit /\ AggInit /\ SourceInit /\ BusInit /\ CallInit /\ ConvInit /\ HttpInit
    /\ PersistInit
    /\ \E minSources \in MinSourcesChoices : OracleInit(minSources)

Next ==
    \/ \E chatId \in Chats, amount \in LoanAmounts, collateral \in Collaterals :
            /\ loanCount < MaxLoans
            /\ createLoan(chatId, [loan_amount_usd |-> amount, btc_collateral |-> collateral])
            /\ UNCHANGED <<aggVars, sourceVars, oracleVars, busVars, callVars, convVars, httpVars, persistVars>>
    \/ \E token \in 1..MaxLoans : deleteLoan(token) /\ UNCHANGED <<aggVars, sourceVars, oracleVars, busVars, callVars, convVars, httpVars, persistVars>>
    \/ \E token \in 1..MaxLoans, threshold \in PriceThresholds, direction \in Directions :
            createPriceAlert(token, threshold, direction) /\ UNCHANGED <<aggVars, sourceVars, oracleVars, busVars, callVars, convVars, httpVars, persistVars>>
    \/ \E token \in 1..MaxLoans, threshold \in LtvThresholds, direction \in Directions :
            createLtvAlert(token, threshold, direction) /\ UNCHANGED <<aggVars, sourceVars, oracleVars, busVars, callVars, convVars, httpVars, persistVars>>
    \/ \E id \in 1..MaxAlerts : deletePriceAlert(id) /\ UNCHANGED <<aggVars, sourceVars, oracleVars, busVars, callVars, convVars, httpVars, persistVars>>
    \/ \E id \in 1..MaxAlerts : deleteLtvAlert(id) /\ UNCHANGED <<aggVars, sourceVars, oracleVars, busVars, callVars, convVars, httpVars, persistVars>>
    \/ \E p \in Prices : onPriceUpdate(p) /\ UNCHANGED <<aggVars, sourceVars, oracleVars, busVars, callVars, convVars, httpVars, persistVars>>
    \/ checkPriceAlertsStep /\ UNCHANGED <<aggVars, sourceVars, oracleVars, busVars, callVars, convVars, httpVars, persistVars>>
    \/ checkLtvAlertsStart /\ UNCHANGED <<aggVars, sourceVars, oracleVars, busVars, callVars, convVars, httpVars, persistVars>>
    \/ checkLtvAlertsStep /\ UNCHANGED <<aggVars, sourceVars, oracleVars, busVars, callVars, convVars, httpVars, persistVars>>
    \/ onPriceUpdateEnd /\ UNCHANGED <<aggVars, sourceVars, oracleVars, busVars, callVars, convVars, httpVars, persistVars>>
    \/ \E i \in 1..MaxHandlers : notifyResolved(i) /\ UNCHANGED <<aggVars, sourceVars, oracleVars, busVars, callVars, convVars, httpVars, persistVars>>
    \/ \E i \in 1..MaxHandlers : notifyRejected(i) /\ UNCHANGED <<aggVars, sourceVars, oracleVars, busVars, callVars, convVars, httpVars, persistVars>>

Spec == Init /\ [][Next]_vars

\* a source's tick carries the source's Date.now()
NextAgg ==
    \/ \E source \in Sources, price \in SourcePrices :
            ingestTick(source, price, now) /\ UNCHANGED <<alertVars, sourceVars, oracleVars, busVars, callVars, convVars, httpVars, persistVars>>
    \/ computeUpdate /\ UNCHANGED <<alertVars, sourceVars, oracleVars, busVars, callVars, convVars, httpVars, persistVars>>
    \/ clockTick /\ UNCHANGED <<alertVars, sourceVars, oracleVars, busVars, callVars, convVars, httpVars, persistVars>>

SpecAgg == Init /\ [][NextAgg]_vars

\* the aggregator over the window of the TWAP: ticks, polls, reconfiguration
\* and a clock coarse enough to carry samples out of the window
NextTwap ==
    \/ \E source \in TwapSources, price \in SourcePrices :
            ingestTick(source, price, now) /\ UNCHANGED <<alertVars, sourceVars, oracleVars, busVars, callVars, convVars, httpVars, persistVars>>
    \/ computeUpdate /\ UNCHANGED <<alertVars, sourceVars, oracleVars, busVars, callVars, convVars, httpVars, persistVars>>
    \/ \E seconds \in TwapWindowSeconds : updateConfig(seconds) /\ UNCHANGED <<alertVars, sourceVars, oracleVars, busVars, callVars, convVars, httpVars, persistVars>>
    \/ clockAdvance(TwapClockStep, MaxTwapClock * TwapClockStep) /\ UNCHANGED <<alertVars, sourceVars, oracleVars, busVars, callVars, convVars, httpVars, persistVars>>

SpecTwap == Init /\ [][NextTwap]_vars

\* the aggregator under the prices of scenarios S5 and S6, all calls within
\* one millisecond
NextScenario ==
    \/ \E source \in Sources, price \in ScenarioPrices :
            ingestTick(source, price, now) /\ UNCHANGED <<alertVars, sourceVars, oracleVars, busVars, callVars, convVars, httpVars, persistVars>>
    \/ computeUpdate /\ UNCHANGED <<alertVars, sourceVars, oracleVars, busVars, callVars, convVars, httpVars, persistVars>>

SpecScenario == Init /\ [][NextScenario]_vars

\* the aggregator as a component: ingestTick(source, price, timestamp) takes
\* the timestamp of its caller, any instant up to the present
NextIngest ==
    \/ \E source \in OracleSources, price \in SourcePrices, timestamp \in TickTimestamps :
            /\ timestamp <= now
            /\ ingestTick(source, price, timestamp)
            /\ UNCHANGED <<alertVars, sourceVars, oracleVars, busVars, callVars, convVars, httpVars, persistVars>>
    \/ computeUpdate /\ UNCHANGED <<alertVars, sourceVars, oracleVars, busVars, callVars, convVars, httpVars, persistVars>>
    \/ clockTick /\ UNCHANGED <<alertVars, sourceVars, oracleVars, busVars, callVars, convVars, httpVars, persistVars>>

SpecIngest == Init /\ [][NextIngest]_vars

\* one price source under start(), stop() and the events of its sockets
NextSource ==
    \/ sourceStart /\ UNCHANGED <<alertVars, aggVars, oracleVars, busVars, callVars, convVars, httpVars, persistVars>>
    \/ sourceStop /\ UNCHANGED <<alertVars, aggVars, oracleVars, busVars, callVars, convVars, httpVars, persistVars>>
    \/ \E k \in 1..Len(sockets) : onOpen(k) /\ UNCHANGED <<alertVars, aggVars, oracleVars, busVars, callVars, convVars, httpVars, persistVars>>
    \/ \E k \in 1..Len(sockets), msg \in Messages :
            onMessage(k, msg) /\ UNCHANGED <<alertVars, aggVars, oracleVars, busVars, callVars, convVars, httpVars, persistVars>>
    \/ \E k \in 1..Len(sockets) : onError(k) /\ UNCHANGED <<alertVars, aggVars, oracleVars, busVars, callVars, convVars, httpVars, persistVars>>
    \/ \E k \in 1..Len(sockets) : onClose(k) /\ UNCHANGED <<alertVars, aggVars, oracleVars, busVars, callVars, convVars, httpVars, persistVars>>
    \/ \E t \in 1..Len(timers) : reconnectTimerFires(t) /\ UNCHANGED <<alertVars, aggVars, oracleVars, busVars, callVars, convVars, httpVars, persistVars>>
    \/ clockAdvance(ClockStep, ClockStep) /\ UNCHANGED <<alertVars, sourceVars, oracleVars, busVars, callVars, convVars, httpVars, persistVars>>

SpecSource == Init /\ [][NextSource]_vars

\* the oracle service over its aggregator, with no subscriber on price:update
NextOracle ==
    \/ /\ oracleStart
       /\ lastResult' = NoUpdate("start")
       /\ UNCHANGED <<now, sourcePrices, samples, circuitBreakerActive,
                      lastKnownGoodPrice, circuitBreakerTriggeredAt, config>>
       /\ UNCHANGED <<alertVars, sourceVars, busVars, callVars, convVars, httpVars, persistVars>>
    \/ /\ oracleStop
       /\ lastResult' = NoUpdate("stop")
       /\ UNCHANGED <<now, sourcePrices, samples, circuitBreakerActive,
                      lastKnownGoodPrice, circuitBreakerTriggeredAt, config>>
       /\ UNCHANGED <<alertVars, sourceVars, busVars, callVars, convVars, httpVars, persistVars>>
    \/ \E t \in 1..Len(intervals) : tick(t) /\ UNCHANGED <<alertVars, sourceVars, callVars, convVars, httpVars, persistVars>>
    \/ \E source \in OracleSources, price \in SourcePrices :
            onSourceTick(source, price) /\ UNCHANGED <<alertVars, sourceVars, busVars, callVars, convVars, httpVars, persistVars>>
    \/ /\ clockTick
       /\ published' = <<>>
       /\ UNCHANGED <<oracleRunning, intervals, pollTimer, liveSockets, oracleConfig,
                      lastUpdate>>
       /\ UNCHANGED <<alertVars, sourceVars, busVars, callVars, convVars, httpVars, persistVars>>

SpecOracle == InitOracle /\ [][NextOracle]_vars

\* the event bus under emitSystemEvent and getHistory
NextBus ==
    \/ \E type \in EventTypes :
            emitSystemEvent(type) /\ UNCHANGED <<alertVars, aggVars, sourceVars, oracleVars, callVars, convVars, httpVars, persistVars>>
    \/ \E type \in EventTypes, limit \in HistoryLimits :
            getHistory(type, limit) /\ UNCHANGED <<alertVars, aggVars, sourceVars, oracleVars, callVars, convVars, httpVars, persistVars>>

SpecBus == Init /\ [][NextBus]_vars

\* the loan store under its callers, with no price arriving
NextStore ==
    \/ \E chatId \in StoreChats, amount \in LoanAmounts :
            /\ loanCount < MaxStoreLoans
            /\ createLoan(chatId, [loan_amount_usd |-> amount])
            /\ storeReturn' = NoReturn
            /\ UNCHANGED <<aggVars, sourceVars, oracleVars, busVars, convVars, httpVars, persistVars>>
    \/ \E token \in 1..(MaxStoreLoans + 1) :
            /\ deleteLoan(token)
            /\ storeReturn' = [call |-> "deleteLoan", token |-> token,
                               value |-> deleteLoanReturns(token)]
            /\ UNCHANGED <<aggVars, sourceVars, oracleVars, busVars, convVars, httpVars, persistVars>>
    \/ \E token \in 1..MaxStoreLoans, threshold \in PriceThresholds, direction \in Directions :
            /\ createPriceAlert(token, threshold, direction)
            /\ storeReturn' = NoReturn
            /\ UNCHANGED <<aggVars, sourceVars, oracleVars, busVars, convVars, httpVars, persistVars>>
    \/ \E token \in 1..MaxStoreLoans, threshold \in LtvThresholds, direction \in Directions :
            /\ createLtvAlert(token, threshold, direction)
            /\ storeReturn' = NoReturn
            /\ UNCHANGED <<aggVars, sourceVars, oracleVars, busVars, convVars, httpVars, persistVars>>

SpecStore == Init /\ [][NextStore]_vars

\* one chat's /newloan conversation over the store, with no price arriving
NextConv ==
    \/ \E chatId \in ConvChats :
            handleNewLoan(chatId)
                /\ UNCHANGED <<aggVars, sourceVars, oracleVars, busVars, callVars, httpVars, persistVars>>
    \/ \E chatId \in ConvChats, text \in ConvInputs :
            /\ (getConversation(chatId) /\ conversations[chatId].step = "CONFIRM")
                    => loanCount < MaxConvLoans
            /\ handleConversationInput(chatId, text)
            /\ UNCHANGED <<aggVars, sourceVars, oracleVars, busVars, callVars, httpVars, persistVars>>
    \/ \E chatId \in ConvChats, input \in ConvInputs :
            processInput(chatId, input)
                /\ UNCHANGED <<aggVars, sourceVars, oracleVars, busVars, callVars, httpVars, persistVars>>
    \/ \E chatId \in ConvChats :
            handleDelete(chatId)
                /\ UNCHANGED <<aggVars, sourceVars, oracleVars, busVars, callVars, httpVars, persistVars>>
    \/ \E chatId \in ConvChats, field \in EditFields, value \in EditValues :
            handleEdit(chatId, field, value)
                /\ UNCHANGED <<aggVars, sourceVars, oracleVars, busVars, callVars, httpVars, persistVars>>

SpecConv == Init /\ [][NextConv]_vars

\* the store with persistence enabled under the alert engine: every mutation
\* of the store schedules a save; updates are handled one after the other
NextPersist ==
    \/ \E chatId \in Chats :
            /\ loanCount < MaxLoans
            /\ createLoan(chatId, [loan_amount_usd |-> 2, btc_collateral |-> 1])
            /\ scheduleSave
            /\ UNCHANGED <<aggVars, sourceVars, oracleVars, busVars, callVars, convVars, httpVars>>
    \/ \E token \in 1..MaxLoans, threshold \in PriceThresholds, direction \in Directions :
            /\ createPriceAlert(token, threshold, direction)
            /\ scheduleSave
            /\ UNCHANGED <<aggVars, sourceVars, oracleVars, busVars, callVars, convVars, httpVars>>
    \/ \E token \in 1..MaxLoans, threshold \in LtvThresholds, direction \in Directions :
            /\ createLtvAlert(token, threshold, direction)
            /\ scheduleSave
            /\ UNCHANGED <<aggVars, sourceVars, oracleVars, busVars, callVars, convVars, httpVars>>
    \/ \E id \in 1..MaxAlerts :
            /\ deletePriceAlert(id)
            /\ scheduleSave
            /\ UNCHANGED <<aggVars, sourceVars, oracleVars, busVars, callVars, convVars, httpVars>>
    \/ \E p \in Prices :
            /\ \A i \in 1..MaxHandlers : handlers[i].phase = "idle"
            /\ onPriceUpdate(p)
            /\ UNCHANGED <<aggVars, sourceVars, oracleVars, busVars, callVars, convVars, httpVars, persistVars>>
    \/ checkPriceAlertsStep /\ UNCHANGED <<aggVars, sourceVars, oracleVars, busVars, callVars, convVars, httpVars, persistVars>>
    \/ checkLtvAlertsStart /\ UNCHANGED <<aggVars, sourceVars, oracleVars, busVars, callVars, convVars, httpVars, persistVars>>
    \/ checkLtvAlertsStep /\ UNCHANGED <<aggVars, sourceVars, oracleVars, busVars, callVars, convVars, httpVars, persistVars>>
    \/ onPriceUpdateEnd /\ UNCHANGED <<aggVars, sourceVars, oracleVars, busVars, callVars, convVars, httpVars, persistVars>>
    \/ \E i \in 1..MaxHandlers : notifyResolved(i) /\ UNCHANGED <<aggVars, sourceVars, oracleVars, busVars, callVars, convVars, httpVars, persistVars>>
    \/ saveTimerFires /\ UNCHANGED <<aggVars, sourceVars, oracleVars, busVars, callVars, convVars, httpVars>>
    \/ flush /\ UNCHANGED <<aggVars, sourceVars, oracleVars, busVars, callVars, convVars, httpVars>>
    \/ /\ \A id \in 1..Len(notified) : notified[id] < MaxNotified
       /\ restart
       /\ UNCHANGED <<aggVars, sourceVars, oracleVars, busVars, callVars, convVars, httpVars>>

SpecPersist == Init /\ [][NextPersist]_vars

\* the dashboard server over the store
NextHttp ==
    \/ \E chatId \in StoreChats, amount \in LoanAmounts :
            /\ loanCount < MaxStoreLoans
            /\ createLoan(chatId, [loan_amount_usd |-> amount])
            /\ response' = NoResponse
            /\ UNCHANGED <<aggVars, sourceVars, oracleVars, busVars, callVars, convVars, persistVars>>
    \/ \E token \in RequestTokens :
            /\ deleteLoan(token)
            /\ response' = NoResponse
            /\ UNCHANGED <<aggVars, sourceVars, oracleVars, busVars, callVars, convVars, persistVars>>
    \/ \E method \in Methods, path \in Paths :
            /\ handleRequest(method, path)
            /\ UNCHANGED <<aggVars, sourceVars, oracleVars, busVars, callVars, convVars, persistVars>>
    \/ \E token \in RequestTokens, threshold \in PriceThresholds, direction \in Directions :
            /\ createPriceAlert(token, threshold, direction)
            /\ response' = NoResponse
            /\ UNCHANGED <<aggVars, sourceVars, oracleVars, busVars, callVars, convVars, persistVars>>
    \/ \E token \in RequestTokens, threshold \in LtvThresholds, direction \in Directions :
            /\ createLtvAlert(token, threshold, direction)
            /\ response' = NoResponse
            /\ UNCHANGED <<aggVars, sourceVars, oracleVars, busVars, callVars, convVars, persistVars>>
    \/ \E token \in RequestTokens, alertId \in RequestAlertIds :
            /\ apiDeleteAlert(token, alertId)
            /\ UNCHANGED <<aggVars, sourceVars, oracleVars, busVars, callVars, convVars, persistVars>>

SpecHttp == Init /\ [][NextHttp]_vars

\* a pending timer fires once its 5 s have passed, and a socket that is
\* closing gets its close event
SourceFairness ==
    /\ \A t \in 1..MaxSockets :
            WF_vars(/\ t <= Len(timers)
                    /\ reconnectTimerFires(t)
                    /\ UNCHANGED <<alertVars, aggVars, oracleVars, busVars, callVars, convVars, httpVars, persistVars>>)
    /\ \A k \in 1..MaxSockets :
            WF_vars(/\ k <= Len(sockets)
                    /\ sockets[k].readyState = "CLOSING"
                    /\ onClose(k)
                    /\ UNCHANGED <<alertVars, aggVars, oracleVars, busVars, callVars, convVars, httpVars, persistVars>>)

SpecSourceFair == SpecSource /\ SourceFairness

(***************************************************************************)
(* Properties of the alert engine                                          *)
(***************************************************************************)
AlertIds == 1..Len(alertObj)

InFlight == {i \in 1..MaxHandlers : handlers[i].phase # "idle"}

\* the running invocation is about to evaluate alert id in its price sweep
EvaluatingPrice(id) ==
    /\ running # 0
    /\ handlers[running].phase = "price"
    /\ handlers[running].todo # <<>>
    /\ Head(handlers[running].todo) = id

\* the running invocation is about to evaluate alert id in its LTV sweep
EvaluatingLtv(id) ==
    /\ running # 0
    /\ handlers[running].phase = "ltv"
    /\ handlers[running].todo # <<>>
    /\ Head(handlers[running].todo) = id

\* alert id is triggered and notified in this step
Fires(id) ==
    /\ ~alertObj[id].triggered
    /\ alertObj'[id].triggered
    /\ notified'[id] = notified[id] + 1

\* alert id is neither triggered nor notified in this step
Quiet(id) ==
    /\ alertObj'[id].triggered = alertObj[id].triggered
    /\ notified'[id] = notified[id]

\* the notification of alert id was rejected: it is triggered, no invocation
\* awaits it, and its ALERT_TRIGGERED event was never emitted
NotifyFailed(id) ==
    /\ alertObj[id].triggered
    /\ \A i \in 1..MaxHandlers : handlers[i].awaiting # id
    /\ \A k \in 1..Len(history) : history[k] # id

\* C1: each price alert and each LTV alert causes at most one call of notify
\* over its lifetime, and once an alert is triggered no later step (of any
\* invocation, overlapping or not) notifies it.
C1_NotifyAtMostOnce ==
    /\ [](\A id \in AlertIds : notified[id] <= 1)
    /\ [][\A id \in AlertIds : alertObj[id].triggered => notified'[id] = notified[id]]_vars

\* C1 witness: an alert was notified once, its notification is still awaited,
\* and an overlapping invocation whose price crosses the threshold as well has
\* already swept past it.
C1_Witness ==
    \E id \in AlertIds, i \in 1..MaxHandlers, j \in 1..MaxHandlers :
        /\ alertObj[id].kind = "price"
        /\ notified[id] = 1
        /\ handlers[i].awaiting = id
        /\ j # i
        /\ handlers[j].phase = "ltv"
        /\ PricePast(handlers[j].price, alertObj[id].threshold, alertObj[id].direction)
        /\ previousPrice = 0

\* the crossing rule as the specification words it
CrossingRule(prevPos, prevZero, prevGe, prevLe, currLt, currGt, direction) ==
    \/ /\ direction = "BELOW"
       /\ (prevPos /\ prevGe /\ currLt) \/ (prevZero /\ currLt)
    \/ /\ direction = "ABOVE"
       /\ (prevPos /\ prevLe /\ currGt) \/ (prevZero /\ currGt)

PriceRule(prev, curr, threshold, direction) ==
    CrossingRule(prev > 0, prev = 0, prev >= threshold, prev <= threshold,
                 curr < threshold, curr > threshold, direction)

\* C2: an untriggered price alert whose loan exists is triggered and notified
\* when a sweep evaluates it with price curr and previous_price prev if and only
\* if the crossing rule holds of (prev, curr, threshold, direction); no other
\* step triggers or notifies a price alert.
C2_PriceCrossingRule ==
    [][\A id \in AlertIds :
        (alertObj[id].kind = "price" /\ ~alertObj[id].triggered) =>
            IF EvaluatingPrice(id) /\ getLoan(alertObj[id].token)
               /\ PriceRule(previousPrice, handlers[running].price,
                            alertObj[id].threshold, alertObj[id].direction)
            THEN Fires(id)
            ELSE Quiet(id)]_vars

\* C2 witness: a price alert fired on a crossing from a recorded previous price.
C2_Witness ==
    \E id \in AlertIds, i \in 1..MaxHandlers :
        /\ alertObj[id].kind = "price"
        /\ alertObj[id].triggered
        /\ handlers[i].awaiting = id
        /\ previousPrice > 0

\* the LTV crossing rule on fractions: curr = amount / (collateral * price),
\* prev = pn / pd, threshold = pct / 100
LtvRule(pn, pd, amount, collateralUsd, pct, direction) ==
    CrossingRule(pn * pd > 0, pn = 0,
                 pn * 100 >= pct * pd, pn * 100 <= pct * pd,
                 amount * 100 < pct * collateralUsd, amount * 100 > pct * collateralUsd,
                 direction)

\* C3: an untriggered LTV alert whose loan exists is triggered when a sweep
\* evaluates it if and only if btc_collateral * price > 0 and the crossing rule
\* holds with curr = loan_amount_usd / (btc_collateral * price) and prev = the
\* LTV recorded for the loan's token (0 if none); with btc_collateral * price
\* <= 0 it stays untriggered; no other step triggers or notifies an LTV alert.
C3_LtvCrossingRule ==
    [][\A id \in AlertIds :
        (alertObj[id].kind = "ltv" /\ ~alertObj[id].triggered) =>
            LET token == alertObj[id].token
                collateralUsd == loans[token].btc_collateral * handlers[running].price
                pn == IF token \in DOMAIN previousLtvs THEN previousLtvs[token].n ELSE 0
                pd == IF token \in DOMAIN previousLtvs THEN previousLtvs[token].d ELSE 1
            IN  IF /\ EvaluatingLtv(id)
                   /\ getLoan(token)
                   /\ collateralUsd > 0
                   /\ LtvRule(pn, pd, loans[token].loan_amount_usd, collateralUsd,
                              alertObj[id].threshold, alertObj[id].direction)
                THEN Fires(id)
                ELSE Quiet(id)]_vars

\* C3 witness: an LTV alert fired on a crossing from a recorded, positive LTV.
C3_Witness ==
    \E id \in AlertIds, i \in 1..MaxHandlers :
        /\ alertObj[id].kind = "ltv"
        /\ alertObj[id].triggered
        /\ handlers[i].awaiting = id
        /\ alertObj[id].token \in DOMAIN previousLtvs
        /\ previousLtvs[alertObj[id].token].n > 0

\* C4: the triggered flag is terminal: no step changes it from true to false,
\* a rejected notification included.
C4_TriggeredTerminal ==
    [][\A id \in AlertIds : alertObj[id].triggered => alertObj'[id].triggered]_vars

\* C4 witness: an alert whose notification was rejected is still triggered
\* while a later update is being handled.
C4_Witness ==
    \E id \in AlertIds :
        /\ NotifyFailed(id)
        /\ InFlight # {}

\* C5: a failed notify does not interrupt the handling of the update: an
\* invocation ends only after both sweeps, writing previous_price from its
\* update, and every awaited notification is followed by its ALERT_TRIGGERED
\* event.
C5_NotifyFailureNotInterrupting ==
    [][\A i \in 1..MaxHandlers :
        /\ (handlers[i].phase # "idle" /\ handlers'[i].phase = "idle") =>
                /\ handlers[i].phase = "ltv"
                /\ handlers[i].todo = <<>>
                /\ handlers[i].awaiting = 0
                /\ previousPrice' = handlers[i].price
                /\ previousLtvs' = RefreshedLtvs(handlers[i].price)
        /\ (handlers[i].awaiting # 0 /\ handlers'[i].awaiting # handlers[i].awaiting) =>
                history' = Append(history, handlers[i].awaiting)]_vars

\* C6 (as stated): a price alert created while the price is already past its
\* threshold fires on the first update that evaluates it (the update's price
\* being still past the threshold).
C6_FiresOnFirstUpdate ==
    [][\A id \in AlertIds :
        (/\ EvaluatingPrice(id)
         /\ firstObs[id] = "pending"
         /\ ~alertObj[id].triggered
         /\ getLoan(alertObj[id].token)
         /\ PricePast(handlers[running].price, alertObj[id].threshold, alertObj[id].direction))
        => Fires(id)]_vars

\* C6 (amended): a price alert whose threshold the price has already passed
\* fires on the first update that evaluates it, exactly once, if and only if
\* previous_price is then 0 (no update was handled to its end yet) or is not
\* itself past the threshold; when previous_price is past the threshold too,
\* the alert stays untriggered on that update.
C6_FiresOnFirstObservationOnly ==
    /\ [](\A id \in AlertIds : notified[id] <= 1)
    /\ [][\A id \in AlertIds :
            (/\ EvaluatingPrice(id)
             /\ firstObs[id] = "pending"
             /\ ~alertObj[id].triggered
             /\ getLoan(alertObj[id].token)
             /\ PricePast(handlers[running].price, alertObj[id].threshold,
                          alertObj[id].direction))
            => IF \/ previousPrice = 0
                  \/ ~PricePast(previousPrice, alertObj[id].threshold, alertObj[id].direction)
               THEN Fires(id) /\ firstObs'[id] = "fired"
               ELSE Quiet(id) /\ firstObs'[id] = "missed"]_vars

\* C6 witness: an alert created past its threshold fired on its first
\* evaluation, previous_price being 0.
C6_Witness ==
    \E id \in AlertIds :
        /\ firstObs[id] = "fired"
        /\ previousPrice = 0
        /\ notified[id] = 1

\* C7: the handling of one price:update runs to completion before the handling
\* of the next begins: at most one invocation of onPriceUpdate is in flight.
C7_HandlersSerialised == Cardinality(InFlight) <= 1

(***************************************************************************)
(* Properties of the aggregator                                            *)
(***************************************************************************)
\* the step is a call of computeUpdate
ComputeStep == lastResult'.call = "computeUpdate"

\* some source has a stored tick younger than 30 s
SomeSourceFresh ==
    \E k \in 1..Len(sourcePrices) : now - sourcePrices[k].timestamp < staleThreshold

\* the median of the fresh sources deviates from last_known_good by more than
\* circuit_breaker_pct percent
MedianDeviates ==
    LET median == medianPrice(sortAscending(sourcePricesOf(activeSources)))
    IN  /\ lastKnownGoodPrice > 0
        /\ Abs(median - lastKnownGoodPrice) * 100 > circuit_breaker_pct * lastKnownGoodPrice

\* C8: computeUpdate returns null exactly when no source has a stored tick with
\* now - timestamp < 30000 ms, and then it leaves the sample ring,
\* last_known_good and the circuit-breaker state unchanged.
C8_NullIffNoFreshSource ==
    [][ComputeStep =>
        /\ lastResult'.isNull <=> ~SomeSourceFresh
        /\ lastResult'.isNull =>
                UNCHANGED <<samples, lastKnownGoodPrice, circuitBreakerActive,
                            circuitBreakerTriggeredAt>>]_vars

\* C8 witness: computeUpdate has just returned null with ticks stored (all
\* stale) and samples in the ring.
C8_Witness ==
    /\ lastResult.call = "computeUpdate"
    /\ lastResult.isNull
    /\ Len(sourcePrices) > 0
    /\ Len(samples) > 0
    /\ lastKnownGoodPrice > 0

\* C9: while the breaker is tripped and now - tripped_at < 60000 ms, a
\* computeUpdate whose median deviates from last_known_good by more than
\* circuit_breaker_pct/100 returns price = median with circuit_breaker = true,
\* leaves last_known_good (and tripped_at) unchanged and appends a sample whose
\* price is last_known_good; tripped_at is written only by the first trip of a
\* run, to the time of that call.
C9_TrippedUpdate ==
    [][/\ (/\ ComputeStep
           /\ circuitBreakerActive
           /\ now - circuitBreakerTriggeredAt < breakerHoldMs
           /\ SomeSourceFresh
           /\ MedianDeviates)
          => /\ ~lastResult'.isNull
             /\ lastResult'.price = medianPrice(sortAscending(sourcePricesOf(activeSources)))
             /\ lastResult'.circuit_breaker
             /\ circuitBreakerActive'
             /\ lastKnownGoodPrice' = lastKnownGoodPrice
             /\ circuitBreakerTriggeredAt' = circuitBreakerTriggeredAt
             /\ samples'[Len(samples')] = [price |-> lastKnownGoodPrice, timestamp |-> now]
       /\ circuitBreakerTriggeredAt' # circuitBreakerTriggeredAt
          => /\ ComputeStep
             /\ ~circuitBreakerActive
             /\ SomeSourceFresh
             /\ MedianDeviates
             /\ circuitBreakerActive'
             /\ circuitBreakerTriggeredAt' = now]_vars

\* C9 witness: a tripped update returned after the first trip of its run: the
\* sample appended carries last_known_good, the update carries the median.
C9_Witness ==
    /\ lastResult.call = "computeUpdate"
    /\ lastResult.circuit_breaker
    /\ circuitBreakerActive
    /\ now > circuitBreakerTriggeredAt
    /\ samples[Len(samples)].price = lastKnownGoodPrice
    /\ lastResult.price # lastKnownGoodPrice

\* C10: last_known_good changes only in a computeUpdate call that returns
\* circuit_breaker = false, and after every such call it equals the returned
\* price; a call returning circuit_breaker = true or null, and ingestTick,
\* leave it unchanged.
C10_LastKnownGoodOnlyAccepted ==
    [][/\ lastKnownGoodPrice' # lastKnownGoodPrice
          => /\ ComputeStep
             /\ ~lastResult'.isNull
             /\ ~lastResult'.circuit_breaker
       /\ (ComputeStep /\ ~lastResult'.isNull /\ ~lastResult'.circuit_breaker)
          => lastKnownGoodPrice' = lastResult'.price]_vars

\* C10 witness: a tripped update has just been returned and last_known_good
\* still holds the earlier accepted median.
C10_Witness ==
    /\ lastResult.call = "computeUpdate"
    /\ lastResult.circuit_breaker
    /\ lastKnownGoodPrice > 0
    /\ lastKnownGoodPrice # lastResult.price

\* the stored ticks that are fresh: younger than 30 s
FreshTicks == {k \in 1..Len(sourcePrices) : now - sourcePrices[k].timestamp < staleThreshold}

\* the breaker is tripped and its 60 s hold has run out
HoldExpired ==
    /\ circuitBreakerActive
    /\ now - circuitBreakerTriggeredAt >= breakerHoldMs

\* C11: once the breaker has been tripped for 60 s or more, a computeUpdate
\* whose median still deviates from the pre-anomaly last_known_good by more than
\* circuit_breaker_pct re-trips: that update is returned with
\* circuit_breaker = true, or the trip is cleared with last_known_good kept so
\* that the next update at the same median is.
C11_ReTripsAfterHold ==
    [][(ComputeStep /\ HoldExpired /\ SomeSourceFresh /\ MedianDeviates)
          => \/ lastResult'.circuit_breaker
             \/ (~circuitBreakerActive' /\ MedianDeviates')]_vars

\* the price of rank j (1 = lowest) among the prices of the ticks in T
Ranked(T, j) ==
    CHOOSE x \in {sourcePrices[k].price : k \in T} :
        /\ Cardinality({k \in T : sourcePrices[k].price < x}) < j
        /\ j <= Cardinality({k \in T : sourcePrices[k].price <= x})

\* m is the median of the prices of the ticks in T
IsMedian(m, T) ==
    LET n == Cardinality(T)
    IN  IF n % 2 = 1
        THEN m = Ranked(T, (n + 1) \div 2)
        ELSE 2 * m = Ranked(T, n \div 2) + Ranked(T, (n \div 2) + 1)

\* C12: the price of every non-null update, tripped or not, is the median of
\* the fresh sources' prices: the middle one of an odd count (of three, the
\* middle one), the mean of the two middle ones of an even count.
C12_PriceIsMedian ==
    [][(ComputeStep /\ ~lastResult'.isNull) => IsMedian(lastResult'.price, FreshTicks)]_vars

\* C12 witness: an update over three fresh sources with three different prices
\* carries the one that is neither the lowest nor the highest.
C12_Witness ==
    /\ lastResult.call = "computeUpdate"
    /\ ~lastResult.isNull
    /\ Cardinality(FreshTicks) = 3
    /\ \E k \in FreshTicks : sourcePrices[k].price < lastResult.price
    /\ \E k \in FreshTicks : sourcePrices[k].price > lastResult.price

\* the latest ticks are those of scenario S5, all fresh
S5Ticks ==
    /\ Cardinality(FreshTicks) = 3
    /\ \A k \in FreshTicks :
            sourcePrices[k].price = CASE sourcePrices[k].source = "kraken" -> 60000
                                      [] sourcePrices[k].source = "coinbase" -> 60500
                                      [] sourcePrices[k].source = "bitstamp" -> 60200

\* the update of scenario S5 but for its confidence
S5PriceAndSources(update) ==
    /\ ~update.isNull
    /\ update.price = 60200
    /\ Len(update.sources) = 3
    /\ {update.sources[k] : k \in 1..3} = Sources

\* C13 as stated: in scenario S5 (Kraken 60000, Coinbase 60500, Bitstamp 60200,
\* all fresh) computeUpdate returns price 60200, the three source names and
\* confidence HIGH.
C13_S5ConfidenceHigh ==
    [][(ComputeStep /\ S5Ticks)
          => /\ S5PriceAndSources(lastResult')
             /\ lastResult'.confidence = "HIGH"]_vars

\* C13 amended: in scenario S5 computeUpdate returns price 60200, the three
\* source names and confidence MEDIUM (the spread, 500 / 60000, lies between
\* 0.005 and 0.01).
C13_S5ConfidenceMedium ==
    [][(ComputeStep /\ S5Ticks)
          => /\ S5PriceAndSources(lastResult')
             /\ lastResult'.confidence = "MEDIUM"]_vars

\* C13 witness: computeUpdate has returned over the ticks of scenario S5.
C13_Witness ==
    /\ lastResult.call = "computeUpdate"
    /\ S5Ticks
    /\ lastResult.price = 60200

\* the lowest and the highest price among the ticks in T
LowestPrice(T) ==
    CHOOSE x \in {sourcePrices[k].price : k \in T} : \A k \in T : x <= sourcePrices[k].price
HighestPrice(T) ==
    CHOOSE x \in {sourcePrices[k].price : k \in T} : \A k \in T : x >= sourcePrices[k].price

\* the confidence of the fresh set T; spread = (max - min) / min, compared
\* with 0.005 and 0.01 in whole numbers
ConfidenceRule(T) ==
    LET spreadBelow5Permille == (HighestPrice(T) - LowestPrice(T)) * 1000 < 5 * LowestPrice(T)
        spreadBelow1Percent == (HighestPrice(T) - LowestPrice(T)) * 100 < LowestPrice(T)
    IN  IF Cardinality(T) >= 3
        THEN IF spreadBelow5Permille THEN "HIGH"
             ELSE IF spreadBelow1Percent THEN "MEDIUM"
             ELSE "LOW"
        ELSE IF Cardinality(T) = 2 THEN "MEDIUM"
        ELSE "LOW"

\* C14: the confidence of every non-null update is determined by the fresh
\* set: with three or more sources HIGH for a spread below 0.005, MEDIUM for a
\* spread from 0.005 up to 0.01 and LOW above; MEDIUM with two sources; LOW
\* with one.
C14_ConfidenceRule ==
    [][(ComputeStep /\ ~lastResult'.isNull)
          => lastResult'.confidence = ConfidenceRule(FreshTicks)]_vars

\* C14 witness: an update over three fresh sources whose spread lies in the
\* MEDIUM band.
C14_Witness ==
    /\ lastResult.call = "computeUpdate"
    /\ Cardinality(FreshTicks) = 3
    /\ lastResult.confidence = "MEDIUM"
    /\ HighestPrice(FreshTicks) > LowestPrice(FreshTicks)

RECURSIVE Gcd(_, _)
Gcd(a, b) == IF b = 0 THEN a ELSE Gcd(b, a % b)

\* the fraction f in lowest terms
Reduced(f) == [n |-> f.n \div Gcd(f.n, f.d), d |-> f.d \div Gcd(f.n, f.d)]

\* the samples of ring with timestamp in [t - width, t]
WindowOf(ring, t, width) == {k \in 1..Len(ring) : ring[k].timestamp >= t - width}

\* the end of the interval sample k is weighted by: the timestamp of the next
\* sample of the window W, or t for the last one
IntervalEnd(ring, W, k, t) ==
    IF \E j \in W : j > k
    THEN ring[CHOOSE j \in W : j > k /\ \A i \in W : i > k => j <= i].timestamp
    ELSE t

\* the sum over the samples in rest of their weights (priced: of price * weight)
RECURSIVE SumOfWeights(_, _, _, _, _)
SumOfWeights(ring, W, rest, t, priced) ==
    IF rest = {} THEN 0
    ELSE LET k == CHOOSE k \in rest : TRUE
             weight == IntervalEnd(ring, W, k, t) - ring[k].timestamp
         IN  (IF priced THEN ring[k].price * weight ELSE weight)
                + SumOfWeights(ring, W, rest \ {k}, t, priced)

\* the time-weighted average at t of the samples of ring in [t - width, t]
TwapRule(ring, t, width) ==
    LET W == WindowOf(ring, t, width)
        last == CHOOSE k \in W : \A i \in W : i <= k
    IN  IF W = {} THEN [n |-> 0, d |-> 1]
        ELSE IF Cardinality(W) = 1 \/ SumOfWeights(ring, W, W, t, FALSE) = 0
        THEN [n |-> ring[last].price, d |-> 1]
        ELSE Reduced([n |-> SumOfWeights(ring, W, W, t, TRUE),
                      d |-> SumOfWeights(ring, W, W, t, FALSE)])

\* C15: twap_5m of a non-null update is the time-weighted average of the
\* samples with timestamp in [now - 300000, now], each weighted by the interval
\* to the next sample of the window and the last by the interval to now; a
\* window of one sample gives that sample's price, a window of total weight 0
\* the last sample's price.
C15_TwapIsTimeWeighted ==
    [][(ComputeStep /\ ~lastResult'.isNull)
          => Reduced(lastResult'.twap_5m) = TwapRule(samples', now, 300000)]_vars

\* C15 witness: an update whose window holds three samples, the first two of
\* different prices and of positive weight.
C15_Witness ==
    /\ lastResult.call = "computeUpdate"
    /\ ~lastResult.isNull
    /\ Len(samples) = 3
    /\ WindowOf(samples, now, 300000) = {1, 2, 3}
    /\ samples[1].timestamp < samples[2].timestamp
    /\ samples[2].timestamp < samples[3].timestamp
    /\ samples[1].price # samples[2].price

C16_RingBounded ==
    [][/\ Len(samples') <= maxSamples
       /\ (ComputeStep /\ ~lastResult'.isNull)
            => LET pushed == Append(samples, samples'[Len(samples')])
               IN  /\ Len(samples') >= 1
                   /\ Len(samples') = IF Len(pushed) > maxSamples
                                      THEN maxSamples ELSE Len(pushed)
                   /\ samples' = SubSeq(pushed, Len(pushed) - Len(samples') + 1,
                                        Len(pushed))
                   /\ samples'[Len(samples')].timestamp = now
       /\ ~(ComputeStep /\ ~lastResult'.isNull) => samples' = samples]_vars

\* C16 witness: the ring is full of samples taken after the breaker's trip, whose
\* own sample has therefore been dropped.
C16_Witness ==
    /\ lastResult.call = "computeUpdate"
    /\ Len(samples) = maxSamples
    /\ circuitBreakerTriggeredAt > 0
    /\ \A k \in 1..Len(samples) : samples[k].timestamp > circuitBreakerTriggeredAt

\* C17: every non-null update names at least one source, names no source
\* twice, and names exactly the sources whose latest tick is younger than 30 s.
C17_SourcesAreFreshSet ==
    [][(ComputeStep /\ ~lastResult'.isNull)
          => LET sources == lastResult'.sources
             IN  /\ Len(sources) >= 1
                 /\ \A i, j \in 1..Len(sources) : sources[i] = sources[j] => i = j
                 /\ {sources[i] : i \in 1..Len(sources)}
                        = {sourcePrices[k].source : k \in FreshTicks}]_vars

\* C17 witness: an update that leaves out a source whose latest tick is stale.
C17_Witness ==
    /\ lastResult.call = "computeUpdate"
    /\ ~lastResult.isNull
    /\ Len(lastResult.sources) < Len(sourcePrices)
    /\ Len(lastResult.sources) >= 2

\* C18: a computeUpdate call that directly follows another one (same latest
\* ticks, same now) returns the same price, sources and confidence, and null
\* if the other did, whatever the first call did to the ring, last_known_good
\* and the breaker.
C18_RepeatedCallsAgree ==
    [][(ComputeStep /\ lastResult.call = "computeUpdate")
          => /\ lastResult'.isNull = lastResult.isNull
             /\ lastResult'.price = lastResult.price
             /\ lastResult'.sources = lastResult.sources
             /\ lastResult'.confidence = lastResult.confidence]_vars

\* C18 witness: a tripped update returned at the millisecond of the trip's own
\* update: the ring holds two samples of this millisecond.
C18_Witness ==
    /\ lastResult.call = "computeUpdate"
    /\ lastResult.circuit_breaker
    /\ circuitBreakerTriggeredAt = now
    /\ Len(samples) >= 2
    /\ samples[Len(samples)].timestamp = now
    /\ samples[Len(samples) - 1].timestamp = now
    /\ lastResult.price # lastKnownGoodPrice

PendingTimers == {t \in 1..Len(timers) : timers[t].state = "pending"}

\* the connection of a started, not stopped source is going or has gone down
ConnectionDown ==
    /\ ~stopped
    /\ ws # 0
    /\ sockets[ws].readyState \in {"CLOSING", "CLOSED"}

\* the source is connecting or connected again (or has been stopped, or has
\* used up the sockets of the model)
ConnectingAgain ==
    \/ stopped
    \/ ws # 0 /\ sockets[ws].readyState \in {"CONNECTING", "OPEN"}
    \/ Len(sockets) = MaxSockets

\* C21: when the connection of a started, not stopped source closes (an error
\* closes it), exactly one reconnect timer is set, with the fixed delay of
\* 5000 ms whatever the number of failures before; timers are set by closes
\* only; at most one timer is pending at any time; and the source eventually
\* attempts to connect again.
C21_ReconnectAfterClose ==
    /\ [](Cardinality(PendingTimers) <= 1)
    /\ [](\A t \in 1..Len(timers) : timers[t].delay = 5000)
    /\ [][/\ (/\ ~stopped
              /\ ws # 0
              /\ sockets[ws].readyState # "CLOSED"
              /\ Len(sockets') = Len(sockets)
              /\ sockets'[ws].readyState = "CLOSED")
             => /\ Len(timers') = Len(timers) + 1
                /\ reconnectTimer' = Len(timers')
                /\ PendingTimers' = {Len(timers')}
          /\ Len(timers') # Len(timers)
             => /\ Len(timers') = Len(timers) + 1
                /\ \E k \in 1..Len(sockets) :
                        /\ sockets[k].readyState # "CLOSED"
                        /\ sockets'[k].readyState = "CLOSED"]_vars
    /\ (ConnectionDown ~> ConnectingAgain)

\* C21 witness: a second failure in a row: the first timer has fired, the
\* socket it connected has closed too and the second timer is pending.
C21_Witness ==
    /\ ~stopped
    /\ Len(timers) = 2
    /\ timers[1].state = "fired"
    /\ timers[2].state = "pending"
    /\ ws = 2
    /\ sockets[2].readyState = "CLOSED"

\* the message is malformed, of another shape than a ticker, or its parsed
\* price is not strictly positive
Dropped(msg) ==
    \/ msg.shape \in {"malformed", "other"}
    \/ msg.price.isNaN
    \/ msg.price.value <= 0

\* C22: a message that is malformed, is no ticker or carries a price that is
\* not strictly positive emits no tick, leaves lastPrice and lastTimestamp
\* unchanged, closes no connection and schedules no reconnect; every emitted
\* tick has price > 0.
C22_BadMessageDropped ==
    /\ [][(lastMessage' # NoMessage /\ Dropped(lastMessage'))
             => UNCHANGED <<sourceTicks, lastPriceOfSource, lastTimestamp, sockets,
                            ws, timers, reconnectTimer>>]_vars
    /\ [](\A i \in 1..Len(sourceTicks) : sourceTicks[i].price > 0)

\* C22 witness: a ticker of price 0 has been delivered after an earlier tick,
\* at a later time than that tick's.
C22_Witness ==
    /\ lastMessage.shape = "ticker"
    /\ ~lastMessage.price.isNaN
    /\ lastMessage.price.value = 0
    /\ Len(sourceTicks) = 1
    /\ lastPriceOfSource > 0
    /\ lastTimestamp < now


(***************************************************************************)
(* C23                                                                     *)
(***************************************************************************)
ActiveIntervals == {t \in 1..Len(intervals) : intervals[t] = "active"}

\* C23: start() of the oracle is idempotent: whatever start() and stop() calls
\* were made, at most one poll timer is active and no source has been started
\* twice, and a step during which the oracle stays running creates no timer and
\* starts no source.
C23_StartIdempotent ==
    /\ [](Cardinality(ActiveIntervals) <= 1)
    /\ [](\A source \in Sources : liveSockets[source] <= 1)
    /\ [][(oracleRunning /\ oracleRunning')
            => (intervals' = intervals /\ liveSockets' = liveSockets)]_vars

\* the oracle runs on its second timer: it was started, stopped and started
C23_Witness ==
    /\ oracleRunning
    /\ Len(intervals) = 2
    /\ intervals[1] = "cleared"
    /\ intervals[2] = "active"

(***************************************************************************)
(* C24                                                                     *)
(***************************************************************************)
\* C24: while the oracle is stopped no poll timer is active and no source
\* holds a socket, and a step from stopped to stopped publishes nothing: neither
\* price:update nor a system event, and last_update stays.
C24_SilentWhileStopped ==
    /\ [](~oracleRunning => (ActiveIntervals = {} /\ pollTimer = 0))
    /\ [](~oracleRunning => \A source \in Sources : liveSockets[source] = 0)
    /\ [][(~oracleRunning /\ ~oracleRunning')
            => (published' = <<>> /\ eventHistory' = eventHistory
                /\ lastUpdate' = lastUpdate)]_vars

\* the oracle was stopped after it published, while a source is still fresh: a
\* tick now would publish
C24_Witness ==
    /\ ~oracleRunning
    /\ Len(intervals) >= 1
    /\ ~lastUpdate.isNull
    /\ activeSources # <<>>

(***************************************************************************)
(* C25                                                                     *)
(***************************************************************************)
Count(seq, x) == Cardinality({k \in 1..Len(seq) : seq[k] = x})

PositionOf(seq, x) == CHOOSE k \in 1..Len(seq) : seq[k] = x

Suffix(seq, n) ==
    IF n >= Len(seq) THEN seq ELSE SubSeq(seq, Len(seq) - n + 1, Len(seq))

\* what a tick that got update has to publish
PublishedAsSpecified(pubs, update) ==
    /\ Len(pubs) >= 2
    /\ pubs[1] = "price:update"
    /\ pubs[2] = "PRICE_UPDATE"
    /\ Count(pubs, "price:update") = 1
    /\ Count(pubs, "PRICE_UPDATE") = 1
    /\ Count(pubs, "CIRCUIT_BREAKER") = (IF update.circuit_breaker THEN 1 ELSE 0)
    /\ Count(pubs, "SOURCE_DEGRADED")
            = (IF Len(update.sources) < oracleConfig.min_sources THEN 1 ELSE 0)
    /\ \A k \in 1..Len(pubs) :
            pubs[k] \in {"price:update", "PRICE_UPDATE", "CIRCUIT_BREAKER", "SOURCE_DEGRADED"}
    /\ (Count(pubs, "CIRCUIT_BREAKER") = 1 /\ Count(pubs, "SOURCE_DEGRADED") = 1)
            => PositionOf(pubs, "CIRCUIT_BREAKER") < PositionOf(pubs, "SOURCE_DEGRADED")

\* C25: a poll tick whose computeUpdate returns null publishes nothing and
\* leaves last_update; otherwise last_update is the update and the tick
\* publishes price:update, then PRICE_UPDATE, then CIRCUIT_BREAKER exactly when
\* the update's circuit_breaker is set, then SOURCE_DEGRADED exactly when the
\* update has fewer than min_sources sources; the system events arrive in the
\* bus history in that order.
C25_TickPublishes ==
    [][ComputeStep =>
        IF lastResult'.isNull
        THEN /\ published' = <<>>
             /\ lastUpdate' = lastUpdate
             /\ eventHistory' = eventHistory
        ELSE /\ lastUpdate' = lastResult'
             /\ PublishedAsSpecified(published', lastResult')
             /\ LET types == [k \in 1..Len(eventHistory') |-> eventHistory'[k].type]
                IN  Suffix(types, Len(published') - 1) = Tail(published')]_vars

\* a tick published all four, and a tick published nothing
C25_Witness ==
    /\ lastResult.call = "computeUpdate"
    /\ published = <<"price:update", "PRICE_UPDATE", "CIRCUIT_BREAKER", "SOURCE_DEGRADED">>

C25_WitnessNull ==
    /\ lastResult.call = "computeUpdate"
    /\ lastResult.isNull
    /\ ~lastUpdate.isNull

C25_WitnessNotDegraded ==
    /\ lastResult.call = "computeUpdate"
    /\ published = <<"price:update", "PRICE_UPDATE">>
    /\ Len(lastResult.sources) = oracleConfig.min_sources

(***************************************************************************)
(* C26                                                                     *)
(***************************************************************************)
Min(a, b) == IF a < b THEN a ELSE b

\* the history is the last ones emitted, oldest first, and at most maxHistory
HistoryIsRing ==
    /\ Len(eventHistory) = Min(emitted, maxHistory)
    /\ \A k \in 1..Len(eventHistory) :
            eventHistory[k].timestamp = emitted - Len(eventHistory) + k

\* the value of the last getHistory call: events of the type asked for, in the
\* order of emission
ResultOfTypeInOrder ==
    /\ \A k \in 1..Len(historyResult.value) :
            historyResult.value[k].type = historyResult.type
    /\ \A j, k \in 1..Len(historyResult.value) :
            j < k => historyResult.value[j].timestamp < historyResult.value[k].timestamp

ResultWithinLimit == Len(historyResult.value) <= historyResult.limit

C26_RingAndFilter ==
    /\ HistoryIsRing
    /\ historyResult.type # "none" => ResultOfTypeInOrder
    /\ (historyResult.type # "none" /\ historyResult.limit >= 1) => ResultWithinLimit

\* the history has overflowed and a query with a limit of one left out an event
\* of its type
C26_RingWitness ==
    /\ emitted > maxHistory
    /\ historyResult.limit = 1
    /\ Len(historyResult.value) = 1
    /\ Len(SelectSeq(eventHistory, LAMBDA e : e.type = historyResult.type)) > 1

(***************************************************************************)
(* C27                                                                     *)
(***************************************************************************)
AlertsOfToken(alerts, token) == {a \in alerts : alertObj[a].token = token}

\* C27: deleteLoan(token) on an existing loan returns true, and afterwards the
\* loan is retrievable neither by token nor by its chat id and no price or LTV
\* alert of that token is in the store; on an unknown token it returns false
\* and changes nothing.
C27_DeleteLoan ==
    [][\A token \in 1..(MaxStoreLoans + 1) :
        (storeReturn'.call = "deleteLoan" /\ storeReturn'.token = token) =>
            IF getLoan(token)
            THEN /\ storeReturn'.value = TRUE
                 /\ ~getLoan(token)'
                 /\ \A chatId \in StoreChats :
                        loans[token].chat_id = chatId => getLoanByChatId(chatId)' = 0
                 /\ AlertsOfToken(priceAlerts, token)' = {}
                 /\ AlertsOfToken(ltvAlerts, token)' = {}
            ELSE /\ storeReturn'.value = FALSE
                 /\ UNCHANGED alertVars]_vars

\* a loan that had a price alert and an LTV alert was deleted
C27_Witness ==
    /\ storeReturn.call = "deleteLoan"
    /\ storeReturn.value = TRUE
    /\ \E a, b \in 1..Len(alertObj) :
            /\ alertObj[a].kind = "price" /\ alertObj[a].token = storeReturn.token
            /\ alertObj[b].kind = "ltv" /\ alertObj[b].token = storeReturn.token

\* deleteLoan was called with a token of no loan while the store held a loan
C27_WitnessUnknown ==
    /\ storeReturn.call = "deleteLoan"
    /\ storeReturn.value = FALSE
    /\ DOMAIN loans # {}

(***************************************************************************)
(* C28                                                                     *)
(***************************************************************************)
StepOrder == <<"AWAITING_AMOUNT", "AWAITING_COLLATERAL", "AWAITING_MARGIN_CALL",
               "AWAITING_LIQUIDATION", "AWAITING_INTEREST", "AWAITING_END_DATE",
               "AWAITING_LENDER", "CONFIRM">>

Successor(step) == StepOrder[(CHOOSE k \in 1..(Len(StepOrder) - 1) : StepOrder[k] = step) + 1]

\* the last step was processInput(chatId, input) on a conversation at a step
\* that takes input
ProcessStep(chatId, input) ==
    /\ processResult'.call = "processInput"
    /\ chatInput'.chatId = chatId
    /\ chatInput'.text = input
    /\ getConversation(chatId)
    /\ conversations[chatId].step \in ConfiguredSteps

\* C28: processInput with an input that passes the validation of the current
\* step records the step's field and advances to the next step of the fixed
\* order; with an input that fails it returns an error and leaves the step and
\* the partial loan as they were.
C28_ProcessInput ==
    [][\A chatId \in ConvChats, input \in ConvInputs :
        ProcessStep(chatId, input) =>
            IF validate(conversations[chatId].step, input) = ""
            THEN /\ processResult'.error = ""
                 /\ processResult'.nextStep = Successor(conversations[chatId].step)
                 /\ processResult'.field = stepField(conversations[chatId].step)
                 /\ conversations'[chatId].step = Successor(conversations[chatId].step)
                 /\ DOMAIN conversations'[chatId].partial
                        = DOMAIN conversations[chatId].partial \cup {processResult'.field}
                 /\ conversations'[chatId].partial[processResult'.field]
                        = processResult'.value
                 /\ \A field \in DOMAIN conversations[chatId].partial \ {processResult'.field} :
                        conversations'[chatId].partial[field]
                            = conversations[chatId].partial[field]
            ELSE /\ processResult'.error # ""
                 /\ processResult'.nextStep = conversations[chatId].step
                 /\ conversations' = conversations]_vars

\* processInput has taken the conversation through every step to CONFIRM
C28_Witness ==
    /\ processResult.call = "processInput"
    /\ processResult.error = ""
    /\ processResult.nextStep = "CONFIRM"
    /\ getConversation(1)
    /\ conversations[1].step = "CONFIRM"
    /\ DOMAIN conversations[1].partial = {stepField(step) : step \in ConfiguredSteps}

\* processInput has rejected an input half way through
C28_WitnessRejected ==
    /\ processResult.call = "processInput"
    /\ processResult.error # ""
    /\ processResult.nextStep = "AWAITING_INTEREST"
    /\ getConversation(1)
    /\ conversations[1].step = "AWAITING_INTEREST"

(***************************************************************************)
(* C29                                                                     *)
(***************************************************************************)
\* the last step was handleConversationInput(chatId, text) for a chat with a
\* conversation
HandleStep(chatId, text) ==
    /\ chatInput'.handler = "handleConversationInput"
    /\ chatInput'.chatId = chatId
    /\ chatInput'.text = text
    /\ getConversation(chatId)

NoLoanCreated == loans' = loans /\ loanCount' = loanCount /\ chatToToken' = chatToToken

ConversationRemoved(chatId) ==
    /\ ~getConversation(chatId)'
    /\ \A other \in DOMAIN conversations \ {chatId} :
            other \in DOMAIN conversations' /\ conversations'[other] = conversations[other]

\* exactly one loan more, of the chat, with the fields the conversation collected
OneLoanCreated(chatId) ==
    \E token \in 1..MaxConvLoans :
        /\ token \notin DOMAIN loans
        /\ DOMAIN loans' = DOMAIN loans \cup {token}
        /\ \A old \in DOMAIN loans : loans'[old] = loans[old]
        /\ loans'[token].chat_id = chatId
        /\ \A field \in DOMAIN conversations[chatId].partial :
                loans'[token][field] = conversations[chatId].partial[field]
        /\ getLoanByChatId(chatId)' = token

\* what the handler has to do with a text, "yes" being told by Confirms
AsSpecified(chatId, text, Confirms(_)) ==
    IF text = "cancel"
    THEN ConversationRemoved(chatId) /\ NoLoanCreated
    ELSE IF conversations[chatId].step = "CONFIRM"
    THEN IF Confirms(text)
         THEN OneLoanCreated(chatId) /\ ConversationRemoved(chatId)
         ELSE ConversationRemoved(chatId) /\ NoLoanCreated
    ELSE NoLoanCreated

\* a loan comes into being only in a step that starts at CONFIRM
LoanOnlyAtConfirm ==
    (DOMAIN loans' # DOMAIN loans /\ DOMAIN loans \subseteq DOMAIN loans')
        => \E chatId \in ConvChats :
                getConversation(chatId) /\ conversations[chatId].step = "CONFIRM"

ConfirmsExactly(text) == text = "yes"

ConfirmsIgnoringCase(text) == text \in {"yes", "YES"}

\* C29: for a chat with a conversation, "cancel" removes the conversation and
\* creates no loan; at CONFIRM "yes" creates exactly one loan from the collected
\* fields and removes the conversation, and any other input removes the
\* conversation and creates no loan; no loan is created before CONFIRM.
C29_ConfirmOrCancel ==
    [][/\ \A chatId \in ConvChats, text \in ConvInputs :
            HandleStep(chatId, text) => AsSpecified(chatId, text, ConfirmsExactly)
       /\ LoanOnlyAtConfirm]_vars

\* C29, amended: the same, "yes" being accepted in any letter case.
C29_ConfirmIgnoringCase ==
    [][/\ \A chatId \in ConvChats, text \in ConvInputs :
            HandleStep(chatId, text) => AsSpecified(chatId, text, ConfirmsIgnoringCase)
       /\ LoanOnlyAtConfirm]_vars

\* "YES" at CONFIRM has created the loan of the chat
C29_Witness ==
    /\ chatInput.handler = "handleConversationInput"
    /\ chatInput.step = "CONFIRM"
    /\ chatInput.text = "YES"
    /\ getLoanByChatId(1) # 0
    /\ ~getConversation(1)

\* a conversation at CONFIRM was removed by a text other than yes and cancel
C29_WitnessOther ==
    /\ chatInput.handler = "handleConversationInput"
    /\ chatInput.step = "CONFIRM"
    /\ chatInput.text = "abc"
    /\ ~getConversation(1)
    /\ loanCount = 0

(***************************************************************************)
(* C30                                                                     *)
(***************************************************************************)
DashPath(token) == [prefix |-> "/dash/", token |-> token, hex48 |-> TRUE]

\* the last step answered GET /dash/<token>
DashRequest(token) ==
    /\ response'.method = "GET"
    /\ response'.path = DashPath(token)

\* C30: GET /dash/<token> answers 200 with the dashboard HTML when the token is
\* that of a registered loan, and 404 when it is a well-formed token of no
\* loan.
C30_DashboardByToken ==
    [][\A token \in RequestTokens :
        DashRequest(token) =>
            IF getLoan(token)
            THEN response'.status = 200 /\ response'.body = "html"
            ELSE response'.status = 404]_vars

\* the half about registered loans, and the 404 of a path whose token is not
\* 48 lowercase hex digits
C30_RegisteredAndMalformed ==
    [][/\ \A token \in RequestTokens :
            (DashRequest(token) /\ getLoan(token)) =>
                (response'.status = 200 /\ response'.body = "html"
                 /\ response'.token = token)
       /\ (response'.method = "GET" /\ response'.path.prefix = "/dash/"
           /\ ~response'.path.hex48) => response'.status = 404]_vars

\* the dashboard of a registered loan was served
C30_WitnessRegistered ==
    /\ response.method = "GET"
    /\ response.path.prefix = "/dash/"
    /\ response.path.hex48
    /\ getLoan(response.path.token)
    /\ response.status = 200

(***************************************************************************)
(* C31                                                                     *)
(***************************************************************************)
\* a notify call for alert id is in progress
NotifyInProgress(id) == \E i \in 1..MaxHandlers : handlers[i].awaiting = id

\* C31: the flag is set before notify is invoked and ALERT_TRIGGERED is
\* published after the notify call: no notify call is in progress for an alert
\* whose triggered flag is false, the step that invokes notify for an alert
\* leaves it triggered, and an ALERT_TRIGGERED event is published only for an
\* alert whose notify call was in progress and has returned in that step.
C31_MarkBeforeNotify ==
    /\ [](\A id \in AlertIds : NotifyInProgress(id) => alertObj[id].triggered)
    /\ [][\A id \in AlertIds :
            /\ notified'[id] # notified[id] =>
                    (alertObj'[id].triggered /\ NotifyInProgress(id)' /\ history' = history)
            /\ (history' # history /\ history'[Len(history')] = id) =>
                    /\ history' = Append(history, id)
                    /\ alertObj[id].triggered
                    /\ notified[id] >= 1
                    /\ NotifyInProgress(id)
                    /\ \E i \in 1..MaxHandlers :
                            handlers[i].awaiting = id /\ handlers'[i].awaiting = 0]_vars

\* the event of one alert was published while the notify call of another is in
\* progress
C31_Witness ==
    \E id, other \in AlertIds :
        /\ id # other
        /\ \E k \in 1..Len(history) : history[k] = id
        /\ NotifyInProgress(other)
        /\ alertObj[other].triggered

(***************************************************************************)
(* C32                                                                     *)
(***************************************************************************)
\* C32: previous_price is written only by the step that ends the handling of
\* a price:update, after the price sweep and the LTV sweep of that update, and
\* it becomes that update's price; no other step changes it.
C32_PreviousPriceAtEnd ==
    [][previousPrice' # previousPrice =>
        /\ running # 0
        /\ handlers[running].phase = "ltv"
        /\ handlers[running].todo = <<>>
        /\ handlers[running].awaiting = 0
        /\ previousPrice' = handlers[running].price
        /\ handlers'[running] = IdleHandler]_vars

\* an update was handled to its end, and the handling of a later update with
\* another price is in its LTV sweep, with previous_price still the earlier
\* price
C32_Witness ==
    \E i \in 1..MaxHandlers :
        /\ previousPrice > 0
        /\ handlers[i].phase = "ltv"
        /\ handlers[i].price # previousPrice
        /\ lastPrice = handlers[i].price

(***************************************************************************)
(* C33                                                                     *)
(***************************************************************************)
\* invocation i ends in this step, both sweeps done
EndsNormally(i) ==
    /\ handlers[i].phase = "ltv"
    /\ handlers[i].todo = <<>>
    /\ handlers[i].awaiting = 0
    /\ handlers'[i] = IdleHandler

\* the crossing rule without its first-observation clause
OrdinaryLtvCrossing(prev, curr, thresholdPct, direction) ==
    IF direction = "ABOVE"
    THEN ~LtvGt(prev, thresholdPct) /\ LtvGt(curr, thresholdPct)
    ELSE ~LtvLt(prev, thresholdPct) /\ LtvLt(curr, thresholdPct)

\* C33: when the LTV sweep of an update has completed, previous_ltv_by_token
\* holds the LTV at that update's price for every loan of the store with
\* positive collateral value, with or without alerts; so an LTV alert of a loan
\* that already has a recorded LTV (of a positive loan amount) is judged by the
\* crossing from that recorded LTV, not by the first-observation rule.
C33_PreviousLtvsRefreshed ==
    [][/\ \A i \in 1..MaxHandlers :
            EndsNormally(i) =>
                \A token \in DOMAIN loans :
                    loans[token].btc_collateral * handlers[i].price > 0 =>
                        /\ token \in DOMAIN previousLtvs'
                        /\ previousLtvs'[token] = Ltv(loans[token], handlers[i].price)
       /\ \A id \in AlertIds :
            (/\ EvaluatingLtv(id)
             /\ ~alertObj[id].triggered
             /\ getLoan(alertObj[id].token)
             /\ loans[alertObj[id].token].btc_collateral * handlers[running].price > 0
             /\ loans[alertObj[id].token].loan_amount_usd > 0
             /\ alertObj[id].token \in DOMAIN previousLtvs)
            => /\ LtvPositive(previousLtvs[alertObj[id].token])
               /\ IF OrdinaryLtvCrossing(previousLtvs[alertObj[id].token],
                                         Ltv(loans[alertObj[id].token], handlers[running].price),
                                         alertObj[id].threshold, alertObj[id].direction)
                  THEN Fires(id) ELSE Quiet(id)]_vars

\* an ABOVE alert whose loan had a recorded LTV above the threshold was swept
\* by an update at which the LTV is above the threshold too, and did not fire:
\* the first-observation rule would have fired it. No notification was ever
\* awaited, so the alert was in the sweep's snapshot.
C33_Witness ==
    \E id \in AlertIds :
        /\ running # 0
        /\ handlers[running].phase = "ltv"
        /\ handlers[running].todo = <<>>
        /\ id \in ltvAlerts
        /\ alertObj[id].direction = "ABOVE"
        /\ ~alertObj[id].triggered
        /\ getLoan(alertObj[id].token)
        /\ alertObj[id].token \in DOMAIN previousLtvs
        /\ LtvGt(previousLtvs[alertObj[id].token], alertObj[id].threshold)
        /\ LtvGt(Ltv(loans[alertObj[id].token], handlers[running].price), alertObj[id].threshold)
        /\ \A other \in AlertIds : notified[other] = 0

(***************************************************************************)
(* C34: the hold of the circuit breaker                                    *)
(***************************************************************************)

\* the step returns an update with circuit_breaker = true
TrippedStep == ComputeStep /\ ~lastResult'.isNull /\ lastResult'.circuit_breaker

\* the step returns an update with circuit_breaker = false
AcceptedStep == ComputeStep /\ ~lastResult'.isNull /\ ~lastResult'.circuit_breaker

\* C34: every update returned with circuit_breaker = true has a timestamp
\* less than 60 s after the instant the breaker tripped, and not before it.
\* Between two updates with circuit_breaker = true that no update with
\* circuit_breaker = false separates, the breaker stays active and the
\* instant of the trip is not moved (null updates, ticks and the clock leave
\* both alone), so all the updates of such a run lie in one window of less
\* than 60 s.
C34_HoldBelowSixtySeconds ==
    [][/\ TrippedStep =>
            /\ circuitBreakerActive'
            /\ lastResult'.timestamp - circuitBreakerTriggeredAt' < breakerHoldMs
            /\ lastResult'.timestamp >= circuitBreakerTriggeredAt'
       /\ (circuitBreakerActive /\ ~AcceptedStep) =>
            /\ circuitBreakerActive'
            /\ circuitBreakerTriggeredAt' = circuitBreakerTriggeredAt]_vars

\* an update with circuit_breaker = true has been returned later than the
\* trip, and the breaker is still held
C34_Witness ==
    /\ lastResult.call = "computeUpdate"
    /\ ~lastResult.isNull
    /\ lastResult.circuit_breaker
    /\ lastResult.timestamp > circuitBreakerTriggeredAt

\* the hold has run out: the deviating median is accepted 60 s after the trip
C34_WitnessExpired ==
    /\ lastResult.call = "computeUpdate"
    /\ ~lastResult.isNull
    /\ ~lastResult.circuit_breaker
    /\ lastResult.timestamp - circuitBreakerTriggeredAt = breakerHoldMs
    /\ lastKnownGoodPrice > 0

(***************************************************************************)
(* C35: the tick computeUpdate reads for a source                          *)
(***************************************************************************)

\* the stored tick of a source, the one computeUpdate reads (0 when none)
storedTimestamp(entries, source) ==
    IF \E k \in 1..Len(entries) : entries[k].source = source
    THEN (CHOOSE e \in {entries[k] : k \in 1..Len(entries)} : e.source = source).timestamp
    ELSE 0

C36_LoanInvariants ==
    \A token \in DOMAIN loans :
        /\ loans[token].loan_amount_usd > 0
        /\ loans[token].btc_collateral > 0
        /\ 0 < loans[token].margin_call_ltv /\ loans[token].margin_call_ltv < 100
        /\ 0 < loans[token].liquidation_ltv /\ loans[token].liquidation_ltv < 100
        /\ loans[token].liquidation_ltv > loans[token].margin_call_ltv

\* what the validation does keep: the amounts positive and the thresholds in
\* (0, 1], in whatever order
C36_AmountsAndRange ==
    \A token \in DOMAIN loans :
        /\ loans[token].loan_amount_usd > 0
        /\ loans[token].btc_collateral > 0
        /\ 0 < loans[token].margin_call_ltv /\ loans[token].margin_call_ltv <= maxLtvPercent
        /\ 0 < loans[token].liquidation_ltv /\ loans[token].liquidation_ltv <= maxLtvPercent

\* a loan whose liquidation threshold of 75% lies below its margin-call
\* threshold of 100%, the latter set by /edit
C36_LiquidationBelowMarginCall ==
    /\ chatInput.handler = "handleEdit"
    /\ \E token \in DOMAIN loans :
            /\ loans[token].margin_call_ltv = 100
            /\ loans[token].liquidation_ltv = 75

(***************************************************************************)
(* C37: the previous price of the crossing test                            *)
(***************************************************************************)

\* the running invocation is in the loop of checkPriceAlerts, about to
\* evaluate an alert against this.previousPrice
InPriceSweep ==
    /\ running # 0
    /\ handlers[running].phase = "price"
    /\ handlers[running].todo # <<>>

\* C37: whenever an invocation that handles an update after the first
\* evaluates a price alert, this.previousPrice is the price of the update
\* published immediately before the one it handles.
C37_PreviousIsPreceding ==
    (InPriceSweep /\ handlers[running].preceding > 0)
        => previousPrice = handlers[running].preceding

\* a second update is evaluated while the invocation of the first is still
\* awaiting its notification: previousPrice is still 0
C37_OverlapSeesNoPrevious ==
    /\ InPriceSweep
    /\ handlers[running].preceding > 0
    /\ previousPrice = 0
    /\ \E i \in 1..MaxHandlers : handlers[i].awaiting # 0

(***************************************************************************)
(* C38: alerts deleted from the store                                      *)
(***************************************************************************)

\* alert id was created and is no longer in the store
Deleted(id) == id \in 1..Len(alertObj) /\ id \notin priceAlerts \cup ltvAlerts

\* C38: an alert that has been deleted from the store is not triggered and
\* not notified by any later step, whenever the deletion happened.
C38_DeletedStaysQuiet ==
    [][\A id \in 1..MaxAlerts : Deleted(id) => Quiet(id)]_vars

(***************************************************************************)
(* C39: the triggered flag across a restart                                *)
(***************************************************************************)

\* alert id is triggered in memory and the file does not say so, with no save
\* pending
FlagNotOnDisk(id) ==
    /\ id \in priceAlerts \cup ltvAlerts
    /\ alertObj[id].triggered
    /\ ~saveTimer
    /\ id \in disk.priceAlerts \cup disk.ltvAlerts
    /\ ~disk.alertObj[id].triggered

\* C39: with persistence enabled, an alert is notified at most once, process
\* crashes and restarts included: once the engine has marked an alert and no
\* invocation is in the middle of its step, the flag is in loans.json or a
\* save is pending.
C39_FlagPersisted ==
    /\ \A id \in 1..Len(notified) : notified[id] <= 1
    /\ Idle => \A id \in 1..Len(alertObj) : ~FlagNotOnDisk(id)

\* an alert notified a second time, after a restart
C39_NotifiedTwice == \E id \in 1..Len(notified) : notified[id] = 2

(***************************************************************************)
(* C40: DELETE /api/loan/{token}/alerts/{alertId}                          *)
(***************************************************************************)

\* the step answers DELETE /api/loan/<token>/alerts/<alertId>
DeleteAlertStep(token, alertId) ==
    /\ response'.method = "DELETE"
    /\ response'.path = deleteAlertPath(token, alertId)

\* alert alertId is in the store and belongs to the loan of token
BelongsTo(alertId, token) ==
    /\ alertId \in priceAlerts \cup ltvAlerts
    /\ alertObj[alertId].token = token

\* C40: DELETE /api/loan/{token}/alerts/{alertId} removes the alert and
\* answers 200 when token is a loan's and the alert belongs to that loan;
\* otherwise (no such loan, no such alert, or an alert of a different loan)
\* it leaves every alert in the store and answers 404.
C40_DeleteOnlyOwnAlert ==
    [][\A token \in RequestTokens, alertId \in RequestAlertIds :
        DeleteAlertStep(token, alertId) =>
            IF getLoan(token) /\ BelongsTo(alertId, token)
            THEN /\ priceAlerts' = priceAlerts \ {alertId}
                 /\ ltvAlerts' = ltvAlerts \ {alertId}
                 /\ response'.status = 200
            ELSE /\ UNCHANGED <<priceAlerts, ltvAlerts>>
                 /\ response'.status = 404]_vars

\* the same, the owner of the alert not being compared with the token: any
\* existing loan's token deletes any existing alert
C40_DeleteWithAnyLoanToken ==
    [][\A token \in RequestTokens, alertId \in RequestAlertIds :
        DeleteAlertStep(token, alertId) =>
            IF getLoan(token) /\ alertId \in priceAlerts \cup ltvAlerts
            THEN /\ priceAlerts' = priceAlerts \ {alertId}
                 /\ ltvAlerts' = ltvAlerts \ {alertId}
                 /\ response'.status = 200
            ELSE /\ UNCHANGED <<priceAlerts, ltvAlerts>>
                 /\ response'.status = 404]_vars

\* an alert of loan 1 has been deleted by a request carrying the token of
\* loan 2, answered 200
C40_DeletedByOtherLoan ==
    /\ response.method = "DELETE"
    /\ response.status = 200
    /\ response.path.prefix = "/api/loan/alerts/"
    /\ response.path.alertId \in 1..Len(alertObj)
    /\ alertObj[response.path.alertId].token # response.path.token
    /\ response.path.alertId \notin priceAlerts \cup ltvAlerts
====
